---- MODULE Spec2Model ----
(***************************************************************************)
(* A model of the overlay routing core of RustDoIt/common:                 *)
(*   src/src/network.rs          Network (topology graph, find_path)       *)
(*   src/src/assembler.rs        FragmentAssembler                         *)
(*   src/src/routing_handler.rs  Buffer (send buffer) and RoutingHandler   *)
(*   src/src/packet_processor.rs Processor::handle_packet                  *)
(***************************************************************************)
EXTENDS Integers, Sequences, FiniteSets, TLC

VARIABLES
    nodes,              \* Network.nodes: the sequence of Node records
    netOp,              \* the last Network operation applied, with its result
    fragments,          \* FragmentAssembler.fragments
    expected_fragments, \* FragmentAssembler.expected_fragments
    received_fragments, \* FragmentAssembler.received_fragments
    asmOp,              \* the last FragmentAssembler operation, with its result
    asmFeed,            \* the message being delivered and the fragments still to come
    handled,            \* the calls of Processor::handle_msg, in order
    buffer,             \* Buffer.packets_received
    bufOp,              \* the last Buffer operation, with its result
    bufMarked,          \* per key, the indices mark_as_received was called with
    bufTotal,           \* per key, the number of packets inserted
    neighbors,          \* RoutingHandler.neighbors: the ids that have a channel
    flood_seen,         \* RoutingHandler.flood_seen
    session_counter,    \* RoutingHandler.session_counter
    flood_counter,      \* RoutingHandler.flood_counter
    dead,               \* the neighbors whose channel has lost its receiver
    ctrlDead,           \* whether the controller's event channel has lost its receiver
    hOp,                \* the last RoutingHandler operation: result, packets and events
    hSessions,          \* per message sent: destination, fragments, acks handled
    hEver,              \* the ids that have been keys of the neighbor map
    trySend,            \* the call of try_send in progress: its locals and its position
    peers,              \* per node of a network of handlers: its RoutingHandler
    inbox,              \* per node: the packets waiting in its packet_recv channel
    floodLog            \* per node and flood: the steps that sent its FloodRequests

netVars == <<nodes, netOp>>
asmVars == <<fragments, expected_fragments, received_fragments, asmOp, asmFeed, handled>>
bufVars == <<buffer, bufOp, bufMarked, bufTotal>>
hVars ==
    <<neighbors, flood_seen, session_counter, flood_counter, dead, ctrlDead, hOp, hSessions,
      hEver, trySend>>
floodVars == <<peers, inbox, floodLog>>
vars == <<netVars, asmVars, bufVars, hVars, floodVars>>

(***************************************************************************)
(* Bounds of the model.                                                    *)
(***************************************************************************)
MaxNode == 3        \* node ids are 1..MaxNode
MaxAdj == 2         \* longest adjacency list passed to an operation
MaxNetOps == 2      \* Network operations applied after Network::new
MaxFragments == 3   \* most fragments of one message
MaxSession == 2     \* largest session id
MaxHandlerOps == 3  \* steps of a RoutingHandler and its channels after RoutingHandler::new
MaxFlood == 1       \* largest flood id a received packet carries
MaxTrace == 2       \* longest path trace a received packet carries

NodeIds == 1..MaxNode

\* RoutingHandler.id: the local node
SelfId == 1

\* the fragment data size: message.chunks(128), [0u8; 128]
FragSize == 128
NodeTypes == {"Client", "Drone", "Server"}

(***************************************************************************)
(* Sequence helpers (Vec).                                                 *)
(***************************************************************************)
Range(s) == {s[i] : i \in 1..Len(s)}

Contains(s, x) == \E i \in 1..Len(s) : s[i] = x

\* Iterator::position: the first index holding x, 0 when there is none
Position(s, x) ==
    IF Contains(s, x) THEN CHOOSE i \in 1..Len(s) : s[i] = x /\ \A j \in 1..(i - 1) : s[j] # x
    ELSE 0

RemoveAt(s, i) == SubSeq(s, 1, i - 1) \o SubSeq(s, i + 1, Len(s))

Reverse(s) == [i \in 1..Len(s) |-> s[Len(s) + 1 - i]]

NoRepeat(s) == \A i, j \in 1..Len(s) : i # j => s[i] # s[j]

\* the sequences over S of length at most n
SeqsUpTo(S, n) == UNION {[1..k -> S] : k \in 0..n}

(***************************************************************************)
(* HashMap helpers: a map is a function on the set of its keys.            *)
(***************************************************************************)
EmptyMap == [k \in {} |-> 0]

MapInsert(map, key, value) == [k \in DOMAIN map \cup {key} |-> IF k = key THEN value ELSE map[k]]

MapRemove(map, key) == [k \in DOMAIN map \ {key} |-> map[k]]

(***************************************************************************)
(* Node                                                                    *)
(***************************************************************************)
NodeNew(id, node_type, adjacents) ==
    [id |-> id, node_type |-> node_type, adjacents |-> adjacents]

AddAdjacent(node, adj) == [node EXCEPT !.adjacents = Append(@, adj)]

\* the call is guarded by contains() at its only call site, so position() is found
RemoveAdjacent(node, adj) ==
    [node EXCEPT !.adjacents = RemoveAt(@, Position(@, adj))]

\* nodes.iter().find(|n| n.get_id() == id): index of the first match, 0 for None
FindNode(ns, id) ==
    IF \E i \in 1..Len(ns) : ns[i].id = id
    THEN CHOOSE i \in 1..Len(ns) : ns[i].id = id /\ \A j \in 1..(i - 1) : ns[j].id # id
    ELSE 0

(***************************************************************************)
(* Network::add_node                                                       *)
(***************************************************************************)
\* a plausible repair of the back link: push the new node's id (used as a mutant)
BackLinkNewId(new_node, adj) == new_node.id

\* the id add_node pushes on the adjacency list of the present adjacent `adj`:
\* the code pushes *adj, the adjacent's own id
BackLink(new_node, adj) == adj

\* add_node that links back whatever the two roles are (used as a mutant)
LinksBackAlways(new_type, present_type) == TRUE

\* the match on the two node types: a back link is made when either is a Drone
LinksBack(new_type, present_type) == new_type = "Drone" \/ present_type = "Drone"

RECURSIVE AddNodeLoop(_, _, _)
AddNodeLoop(ns, new_node, k) ==
    IF k > Len(new_node.adjacents) THEN ns
    ELSE LET adj == new_node.adjacents[k]
             i == FindNode(ns, adj)
         IN  IF i # 0 /\ LinksBack(new_node.node_type, ns[i].node_type)
             THEN AddNodeLoop([ns EXCEPT ![i] = AddAdjacent(@, BackLink(new_node, adj))],
                              new_node, k + 1)
             ELSE AddNodeLoop(ns, new_node, k + 1)

AddNode(ns, new_node) == Append(AddNodeLoop(ns, new_node, 1), new_node)

(***************************************************************************)
(* Network::remove_node                                                    *)
(***************************************************************************)
\* a remove_node that drops the node and leaves the adjacency lists (a mutant)
RemoveNodeOnly(ns, node_id) ==
    IF FindNode(ns, node_id) # 0 THEN RemoveAt(ns, FindNode(ns, node_id)) ELSE ns

RemoveNode(ns, node_id) ==
    LET stripped == [i \in 1..Len(ns) |->
                        IF Contains(ns[i].adjacents, node_id)
                        THEN RemoveAdjacent(ns[i], node_id) ELSE ns[i]]
        idx == FindNode(stripped, node_id)
    IN  IF idx # 0 THEN RemoveAt(stripped, idx) ELSE stripped

(***************************************************************************)
(* Network::update_node                                                    *)
(***************************************************************************)
RECURSIVE UnionAdjacents(_, _, _)
UnionAdjacents(node, adjacents, k) ==
    IF k > Len(adjacents) THEN node
    ELSE IF ~Contains(node.adjacents, adjacents[k])
         THEN UnionAdjacents(AddAdjacent(node, adjacents[k]), adjacents, k + 1)
         ELSE UnionAdjacents(node, adjacents, k + 1)

UpdateNode(ns, node_id, adjacents) ==
    LET i == FindNode(ns, node_id)
    IN  IF i # 0
        THEN [ok |-> TRUE, nodes |-> [ns EXCEPT ![i] = UnionAdjacents(@, adjacents, 1)]]
        ELSE [ok |-> FALSE, nodes |-> ns]

(***************************************************************************)
(* Network::change_node_type                                               *)
(***************************************************************************)
\* a change_node_type that leaves every role as it is (a mutant)
ChangeNodeTypeKept(ns, id, new_type) == ns

ChangeNodeType(ns, id, new_type) ==
    LET i == FindNode(ns, id)
    IN  IF i # 0 /\ ns[i].node_type # new_type
        THEN [ns EXCEPT ![i].node_type = new_type]
        ELSE ns

(***************************************************************************)
(* Network::find_path: breadth-first search from nodes[0]                  *)
(***************************************************************************)
\* path = [destination]; push the parents while there is one; reverse
RECURSIVE ParentChain(_, _, _)
ParentChain(parent_map, current, path) ==
    IF current \in DOMAIN parent_map
    THEN ParentChain(parent_map, parent_map[current], Append(path, parent_map[current]))
    ELSE path

\* queue.push_back
Enqueue(queue, id) == Append(queue, id)

\* a search that follows the adjacents of the root only (used as a mutant)
ExpandRootOnly(ns, current) == IF ns[1].id = current THEN 1 ELSE 0

\* the node whose adjacents the search follows for `current`
Expand(ns, current) == FindNode(ns, current)

\* a search that takes an id still waiting in the queue for unvisited, so that a
\* later node becomes its parent (used as a mutant)
VisitedOnceExpanded(st, neighbor) ==
    neighbor \in st.visited /\ ~Contains(st.queue, neighbor)

\* visited.contains(neighbor)
Visited(st, neighbor) == neighbor \in st.visited

\* the for loop over the adjacents of the current node
RECURSIVE VisitAdjacents(_, _, _, _)
VisitAdjacents(adjacents, k, current, st) ==
    IF k > Len(adjacents) THEN st
    ELSE LET neighbor == adjacents[k]
         IN  IF ~Visited(st, neighbor)
             THEN VisitAdjacents(adjacents, k + 1, current,
                    [visited |-> st.visited \cup {neighbor},
                     parent_map |-> (neighbor :> current) @@ st.parent_map,
                     queue |-> Enqueue(st.queue, neighbor)])
             ELSE VisitAdjacents(adjacents, k + 1, current, st)

RECURSIVE Bfs(_, _, _)
Bfs(ns, destination, st) ==
    IF st.queue = <<>> THEN [kind |-> "PathNotFound", id |-> destination]
    ELSE LET current == Head(st.queue)
             popped == [st EXCEPT !.queue = Tail(@)]
         IN  IF current = destination
             THEN [kind |-> "Ok",
                   path |-> Reverse(ParentChain(st.parent_map, destination, <<destination>>))]
             ELSE LET i == Expand(ns, current)
                  IN  IF i # 0
                      THEN Bfs(ns, destination,
                               VisitAdjacents(ns[i].adjacents, 1, current, popped))
                      ELSE Bfs(ns, destination, popped)

\* self.nodes[0] panics on an empty topology
FindPath(ns, destination) ==
    IF Len(ns) = 0 THEN [kind |-> "panic"]
    ELSE Bfs(ns, destination,
             [visited |-> {ns[1].id}, parent_map |-> <<>>, queue |-> <<ns[1].id>>])

(***************************************************************************)
(* Fragmentation, as send_message does it: message.chunks(128), each chunk *)
(* copied into a zeroed 128-byte array and given to Fragment::new.          *)
(***************************************************************************)
Min(a, b) == IF a < b THEN a ELSE b

\* a split that drops a shorter final chunk (a mutant)
NumChunksFloor(message) == Len(message) \div FragSize

NumChunks(message) == (Len(message) + FragSize - 1) \div FragSize

\* the i-th chunk, i counted from 0
Chunk(message, i) == SubSeq(message, i * FragSize + 1, Min((i + 1) * FragSize, Len(message)))

\* let mut arr = [0u8; 128]; arr[..chunk.len()].copy_from_slice(chunk)
Padded(chunk) == [j \in 1..FragSize |-> IF j <= Len(chunk) THEN chunk[j] ELSE 0]

\* Fragment::new(fragment_index, total_n_fragments, data): the constructor is given
\* the padded array only, so the length it records is the size of the array
FragmentNew(fragment_index, total_n_fragments, data) ==
    [fragment_index |-> fragment_index, total_n_fragments |-> total_n_fragments,
     length |-> Len(data), data |-> data]

FragmentOf(message, i) == FragmentNew(i, NumChunks(message), Padded(Chunk(message, i)))

(***************************************************************************)
(* FragmentAssembler                                                       *)
(***************************************************************************)
\* sort_by_id: result = fragments.clone(); result[f.fragment_index] = f for each f;
\* indexing past the end panics
RECURSIVE SortByIdLoop(_, _, _)
SortByIdLoop(result, frags, k) ==
    IF k > Len(frags) THEN [panic |-> FALSE, fragments |-> result]
    ELSE IF frags[k].fragment_index >= Len(result) THEN [panic |-> TRUE, fragments |-> result]
         ELSE SortByIdLoop([result EXCEPT ![frags[k].fragment_index + 1] = frags[k]], frags, k + 1)

SortById(frags) == SortByIdLoop(frags, frags, 1)

\* data.copy_from_slice(&f.data) for each fragment: copy_from_slice panics unless
\* the two slices have the same length, and data starts as vec![]
RECURSIVE CopyLoop(_, _, _)
CopyLoop(data, frags, k) ==
    IF k > Len(frags) THEN [panic |-> FALSE, data |-> data]
    ELSE IF Len(data) # Len(frags[k].data) THEN [panic |-> TRUE, data |-> data]
         ELSE CopyLoop(frags[k].data, frags, k + 1)

AllTrue(flags) == \A i \in 1..Len(flags) : flags[i]

\* add_fragment: the three maps after the call and what it returned
AddFragment(fr, ex, rc, fragment, session_id, sender) ==
    LET communication_id == <<session_id, sender>>
        fresh == communication_id \notin DOMAIN fr
        fr1 == IF fresh THEN MapInsert(fr, communication_id, <<fragment>>) ELSE fr
        ex1 == IF fresh THEN MapInsert(ex, communication_id, fragment.total_n_fragments) ELSE ex
        rc1 == IF fresh
               THEN MapInsert(rc, communication_id,
                              [i \in 1..fragment.total_n_fragments |-> FALSE])
               ELSE rc
        Panic == [fragments |-> fr1, expected |-> ex1, received |-> rc1,
                  result |-> [kind |-> "panic"]]
    IN  IF fragment.fragment_index >= Len(rc1[communication_id]) THEN Panic
        ELSE LET rc2 == [rc1 EXCEPT ![communication_id][fragment.fragment_index + 1] = TRUE]
             IN  IF Len(fr1[communication_id]) = ex1[communication_id]
                        /\ AllTrue(rc2[communication_id])
                 THEN LET sorted == SortById(fr1[communication_id])
                          copied == CopyLoop(<<>>, sorted.fragments, 1)
                      IN  IF sorted.panic \/ copied.panic
                          THEN [Panic EXCEPT !.received = rc2]
                          ELSE [fragments |-> MapRemove(fr1, communication_id),
                                expected |-> MapRemove(ex1, communication_id),
                                received |-> MapRemove(rc2, communication_id),
                                result |-> [kind |-> "Some", data |-> copied.data]]
                 ELSE [fragments |-> fr1, expected |-> ex1, received |-> rc2,
                       result |-> [kind |-> "None"]]

(***************************************************************************)
(* The state of a component that a specification leaves alone.             *)
(***************************************************************************)
AsmIdle ==
    /\ fragments = EmptyMap
    /\ expected_fragments = EmptyMap
    /\ received_fragments = EmptyMap
    /\ asmOp = [name |-> "new"]
    /\ asmFeed = [payload |-> <<>>, session_id |-> 0, sender |-> 0, remaining |-> {}]
    /\ handled = <<>>

NetIdle == nodes = <<>> /\ netOp = [name |-> "new", count |-> 0]

FloodIdle == peers = <<>> /\ inbox = <<>> /\ floodLog = <<>>

HandlerIdle ==
    /\ neighbors = {}
    /\ flood_seen = {}
    /\ session_counter = 0
    /\ flood_counter = 0
    /\ dead = {}
    /\ ctrlDead = FALSE
    /\ hOp = [name |-> "new"]
    /\ hSessions = EmptyMap
    /\ hEver = {}
    /\ trySend = [pc |-> "idle"]

BufKeys == {<<s, SelfId>> : s \in 1..MaxSession}

BufIdle ==
    /\ buffer = EmptyMap
    /\ bufOp = [name |-> "new", panic |-> FALSE]
    /\ bufMarked = [k \in BufKeys |-> {}]
    /\ bufTotal = [k \in BufKeys |-> 0]

(***************************************************************************)
(* The assembler on its own: FragmentAssembler::new, then the fragments of *)
(* one message handed to add_fragment one by one, in any order.            *)
(***************************************************************************)
PayloadLens ==
    UNION {{FragSize * (k - 1) + 1, FragSize * k - 56, FragSize * k} : k \in 1..MaxFragments}

\* byte i of the payload of length n made from seed: seed 0 is all zero bytes
Payload(n, seed) == [i \in 1..n |-> (seed * i) % 256]

Payloads == {Payload(n, seed) : n \in PayloadLens, seed \in {0, 37}}

AsmInit ==
    /\ fragments = EmptyMap
    /\ expected_fragments = EmptyMap
    /\ received_fragments = EmptyMap
    /\ asmOp = [name |-> "new"]
    /\ handled = <<>>
    /\ NetIdle
    /\ BufIdle
    /\ HandlerIdle
    /\ FloodIdle
    /\ \E p \in Payloads, s \in 1..MaxSession, o \in NodeIds \ {SelfId} :
            asmFeed = [payload |-> p, session_id |-> s, sender |-> o,
                       remaining |-> 0..(NumChunks(p) - 1)]

AsmAddFragment ==
    \E i \in asmFeed.remaining :
        LET r == AddFragment(fragments, expected_fragments, received_fragments,
                             FragmentOf(asmFeed.payload, i), asmFeed.session_id,
                             asmFeed.sender)
        IN  /\ asmOp.name = "add_fragment" => asmOp.result.kind # "panic"
            /\ fragments' = r.fragments
            /\ expected_fragments' = r.expected
            /\ received_fragments' = r.received
            /\ asmOp' = [name |-> "add_fragment", fragment_index |-> i, result |-> r.result]
            /\ asmFeed' = [asmFeed EXCEPT !.remaining = @ \ {i}]
            /\ UNCHANGED <<netVars, bufVars, hVars, floodVars, handled>>

AsmNext == AsmAddFragment

SpecAsm == AsmInit /\ [][AsmNext]_vars

\* C1: for every non-empty payload split into its fragments and every order in which
\* they are passed to add_fragment, every call but the last returns None, the last
\* returns Some(payload), and afterwards no entry is held for (session_id, origin).
C1_Reassembly ==
    asmOp.name = "add_fragment" =>
        IF asmFeed.remaining = {}
        THEN /\ asmOp.result = [kind |-> "Some", data |-> asmFeed.payload]
             /\ <<asmFeed.session_id, asmFeed.sender>> \notin
                    DOMAIN fragments \cup DOMAIN expected_fragments
                        \cup DOMAIN received_fragments
        ELSE asmOp.result.kind = "None"

(***************************************************************************)
(* Buffer: the send buffer of the routing handler                          *)
(***************************************************************************)
BufferInsert(buf, packet, session_id, from) ==
    LET id == <<session_id, from>>
        entry == [received |-> FALSE, packet |-> packet]
    IN  IF id \in DOMAIN buf THEN [buf EXCEPT ![id] = Append(@, entry)]
        ELSE MapInsert(buf, id, <<entry>>)

RECURSIVE PacketsNotReceived(_, _)
PacketsNotReceived(entries, k) ==
    IF k > Len(entries) THEN <<>>
    ELSE IF ~entries[k].received
         THEN <<entries[k].packet>> \o PacketsNotReceived(entries, k + 1)
         ELSE PacketsNotReceived(entries, k + 1)

GetNotReceived(buf, session_id, from) ==
    LET id == <<session_id, from>>
    IN  IF id \notin DOMAIN buf THEN [kind |-> "None"]
        ELSE [kind |-> "Some", packets |-> PacketsNotReceived(buf[id], 1)]

\* a buffer that drops the session as soon as the acked fragment is marked (a mutant)
AllReceivedLast(entries, fragment_index) == entries[fragment_index + 1].received

\* f.iter().all(|(r, _)| *r)
AllReceived(entries, fragment_index) == \A i \in 1..Len(entries) : entries[i].received

\* mark_as_received: indexing f[fragment_index] past the end panics
MarkAsReceived(buf, session_id, fragment_index, from) ==
    LET id == <<session_id, from>>
    IN  IF id \notin DOMAIN buf THEN [panic |-> FALSE, buffer |-> buf]
        ELSE IF fragment_index >= Len(buf[id]) THEN [panic |-> TRUE, buffer |-> buf]
        ELSE LET f == [buf[id] EXCEPT ![fragment_index + 1].received = TRUE]
             IN  IF AllReceived(f, fragment_index)
                 THEN [panic |-> FALSE, buffer |-> MapRemove(buf, id)]
                 ELSE [panic |-> FALSE, buffer |-> [buf EXCEPT ![id] = f]]

\* get_fragment_by_id: the packet at that index if it is there and not received
GetFragmentById(buf, session_id, fragment_index, from) ==
    LET id == <<session_id, from>>
    IN  IF id \in DOMAIN buf /\ fragment_index < Len(buf[id])
            /\ ~buf[id][fragment_index + 1].received
        THEN [kind |-> "Some", packet |-> buf[id][fragment_index + 1].packet]
        ELSE [kind |-> "None"]

(***************************************************************************)
(* The Buffer on its own, used as the handler uses it: send_message        *)
(* inserts the packets of a session under (session, self.id) in ascending  *)
(* fragment order before any ack of that session is handled; handle_ack    *)
(* calls mark_as_received with whatever session, index and origin arrive.  *)
(***************************************************************************)
BufInsert ==
    \E s \in 1..MaxSession :
        LET id == <<s, SelfId>>
            packet == [pack_type |-> "MsgFragment", session_id |-> s,
                       fragment_index |-> bufTotal[id]]
        IN  /\ ~bufOp.panic
            /\ bufTotal[id] < MaxFragments
            /\ bufMarked[id] = {}
            /\ buffer' = BufferInsert(buffer, packet, s, SelfId)
            /\ bufTotal' = [bufTotal EXCEPT ![id] = @ + 1]
            /\ bufOp' = [name |-> "insert", panic |-> FALSE]
            /\ UNCHANGED bufMarked
            /\ UNCHANGED <<netVars, asmVars, floodVars, hVars>>

BufMarkAsReceived ==
    \E s \in 1..MaxSession, i \in 0..MaxFragments, from \in NodeIds :
        LET id == <<s, from>>
            r == MarkAsReceived(buffer, s, i, from)
        IN  /\ ~bufOp.panic
            /\ buffer' = r.buffer
            /\ bufOp' = [name |-> "mark_as_received", panic |-> r.panic]
            /\ bufMarked' = IF id \in DOMAIN buffer /\ ~r.panic
                            THEN [bufMarked EXCEPT ![id] = @ \cup {i}] ELSE bufMarked
            /\ UNCHANGED bufTotal
            /\ UNCHANGED <<netVars, asmVars, floodVars, hVars>>

BufNext == BufInsert \/ BufMarkAsReceived

BufInit == BufIdle /\ AsmIdle /\ NetIdle /\ HandlerIdle /\ FloodIdle

SpecBuf == BufInit /\ [][BufNext]_vars

\* C6: for an entry holding total packets under one key, once mark_as_received has
\* been called with that key for every index in [0, total), in any order and with
\* any repetitions, the entry is absent and get_not_received yields no packet;
\* before the last distinct index is acked the entry is still present.
C6_AckedEntryRemoved ==
    ~bufOp.panic =>
        \A id \in BufKeys :
            bufTotal[id] > 0 =>
                IF (0..(bufTotal[id] - 1)) \subseteq bufMarked[id]
                THEN /\ id \notin DOMAIN buffer
                     /\ GetNotReceived(buffer, id[1], id[2]) = [kind |-> "None"]
                ELSE /\ id \in DOMAIN buffer
                     /\ Len(buffer[id]) = bufTotal[id]
                     /\ GetNotReceived(buffer, id[1], id[2]).kind = "Some"
                     /\ {q.fragment_index : q \in Range(GetNotReceived(buffer, id[1], id[2]).packets)}
                            = (0..(bufTotal[id] - 1)) \ bufMarked[id]

\* an entry of several packets was acked out of order, with a repeated ack, and the
\* last call removed it
C6_Witness ==
    /\ bufOp.name = "mark_as_received"
    /\ \E id \in BufKeys :
        /\ bufTotal[id] >= 2
        /\ bufMarked[id] = 0..(bufTotal[id] - 1)
        /\ id \notin DOMAIN buffer

(***************************************************************************)
(* The Network on its own: Network::new(root) followed by a bounded number *)
(* of its operations.  Node ids are unique in a topology (the only caller  *)
(* of add_node, handle_flood_response, adds a node only after update_node  *)
(* reported it absent), so add_node is applied to ids that are not present.*)
(***************************************************************************)
AdjLists == {a \in SeqsUpTo(NodeIds, MaxAdj) : NoRepeat(a)}

NetInit ==
    /\ \E t \in NodeTypes, a \in AdjLists : nodes = <<NodeNew(1, t, a)>>
    /\ netOp = [name |-> "new", count |-> 0]
    /\ AsmIdle
    /\ FloodIdle
    /\ BufIdle
    /\ HandlerIdle

NetAddNode ==
    \E id \in NodeIds, t \in NodeTypes, a \in AdjLists :
        /\ netOp.count < MaxNetOps
        /\ FindNode(nodes, id) = 0
        /\ nodes' = AddNode(nodes, NodeNew(id, t, a))
        /\ netOp' = [name |-> "add_node", count |-> netOp.count + 1, result |-> "Ok"]
        /\ UNCHANGED <<asmVars, floodVars, bufVars, hVars>>

NetRemoveNode ==
    \E id \in NodeIds :
        /\ netOp.count < MaxNetOps
        /\ nodes' = RemoveNode(nodes, id)
        /\ netOp' = [name |-> "remove_node", count |-> netOp.count + 1, id |-> id,
                     present |-> FindNode(nodes, id) # 0,
                     lists |-> Cardinality({i \in 1..Len(nodes) :
                                               nodes[i].id # id
                                                   /\ Contains(nodes[i].adjacents, id)})]
        /\ UNCHANGED <<asmVars, floodVars, bufVars, hVars>>

NetUpdateNode ==
    \E id \in NodeIds, a \in AdjLists :
        /\ netOp.count < MaxNetOps
        /\ nodes' = UpdateNode(nodes, id, a).nodes
        /\ netOp' = [name |-> "update_node", count |-> netOp.count + 1, id |-> id,
                     result |-> IF UpdateNode(nodes, id, a).ok THEN "Ok" ELSE "NodeNotFound"]
        /\ UNCHANGED <<asmVars, floodVars, bufVars, hVars>>

NetChangeNodeType ==
    \E id \in NodeIds, t \in NodeTypes :
        /\ netOp.count < MaxNetOps
        /\ nodes' = ChangeNodeType(nodes, id, t)
        /\ netOp' = [name |-> "change_node_type", count |-> netOp.count + 1, id |-> id]
        /\ UNCHANGED <<asmVars, floodVars, bufVars, hVars>>

\* find_path reads the topology only
NetFindPath ==
    \E d \in NodeIds :
        /\ netOp.name # "find_path"
        /\ nodes' = nodes
        /\ netOp' = [name |-> "find_path", count |-> netOp.count, destination |-> d,
                     result |-> FindPath(nodes, d)]
        /\ UNCHANGED <<asmVars, floodVars, bufVars, hVars>>

NetNext ==
    \/ NetAddNode
    \/ NetRemoveNode
    \/ NetUpdateNode
    \/ NetChangeNodeType
    \/ NetFindPath

SpecNet == NetInit /\ [][NetNext]_vars

(***************************************************************************)
(* The topology as a directed graph, and the ids within k hops of the      *)
(* local node (topology index 0), computed without the search.             *)
(***************************************************************************)
Edges(ns) == UNION {{<<ns[i].id, a>> : a \in Range(ns[i].adjacents)} : i \in 1..Len(ns)}

RECURSIVE Within(_, _)
Within(ns, k) ==
    IF k = 0 THEN {ns[1].id}
    ELSE LET S == Within(ns, k - 1) IN S \cup {e[2] : e \in {f \in Edges(ns) : f[1] \in S}}

\* a path with k hops leaves k distinct present nodes, so Len(ns) hops reach everything
HasPath(ns, d) == d \in Within(ns, Len(ns))

IsPathOf(ns, p) == \A i \in 1..(Len(p) - 1) : <<p[i], p[i + 1]>> \in Edges(ns)

\* C2: whenever find_path(d) returns a path, the path starts at the local node
\* (topology index 0), ends at d, each id lists the next one in its adjacents, and
\* no path from the local node to d has fewer hops.
C2_ShortestPath ==
    (netOp.name = "find_path" /\ netOp.result.kind = "Ok") =>
        LET p == netOp.result.path
        IN  /\ Len(p) >= 1
            /\ p[1] = nodes[1].id
            /\ p[Len(p)] = netOp.destination
            /\ IsPathOf(nodes, p)
            /\ Len(p) >= 2 => netOp.destination \notin Within(nodes, Len(p) - 2)

\* find_path returned a two-hop path although the destination has another, longer
\* route as well (the local node lists two adjacents, both present)
C2_Witness ==
    /\ netOp.name = "find_path"
    /\ netOp.result.kind = "Ok"
    /\ Len(netOp.result.path) = 3
    /\ Len(nodes) = 3
    /\ Len(nodes[1].adjacents) = 2

\* C3: find_path(d) returns PathNotFound(d) if and only if no path leads from the
\* local node to d through the adjacency lists of the nodes present; in every
\* other case it returns a path.
C3_NotFoundIffNoPath ==
    (netOp.name = "find_path" /\ Len(nodes) > 0) =>
        /\ netOp.result.kind \in {"Ok", "PathNotFound"}
        /\ netOp.result.kind = "PathNotFound" <=> ~HasPath(nodes, netOp.destination)
        /\ netOp.result.kind = "PathNotFound" => netOp.result.id = netOp.destination

\* find_path reported PathNotFound for a node that is present in the topology and
\* that other present nodes are linked to, but that the local node cannot reach
C3_Witness ==
    /\ netOp.name = "find_path"
    /\ netOp.result.kind = "PathNotFound"
    /\ FindNode(nodes, netOp.destination) # 0
    /\ \E e \in Edges(nodes) : e[2] = netOp.destination /\ e[1] # netOp.destination
    /\ nodes[1].adjacents # <<>>

\* the declared adjacents of the node add_node appended that were present before,
\* with the index they had
PresentAdjacents(before, n) ==
    {a \in Range(n.adjacents) : FindNode(before, a) # 0}

\* C4: after add_node(n) where n declares an adjacent a that is already present and
\* at least one of n, a is a Drone, the adjacency list of a contains n's id.
C4_ReverseLink ==
    [][netOp'.name = "add_node" =>
        LET n == nodes'[Len(nodes')]
        IN  \A a \in PresentAdjacents(nodes, n) :
                (n.node_type = "Drone" \/ nodes[FindNode(nodes, a)].node_type = "Drone")
                    => Contains(nodes'[FindNode(nodes', a)].adjacents, n.id)]_vars

\* C5 as stated: add_node(n) fails with TopologyViolation when n declares an adjacent
\* a that is already present and neither n nor a is a Drone.
C5_TopologyViolation ==
    [][netOp'.name = "add_node" =>
        LET n == nodes'[Len(nodes')]
        IN  (\E a \in PresentAdjacents(nodes, n) :
                n.node_type # "Drone" /\ nodes[FindNode(nodes, a)].node_type # "Drone")
                    => netOp'.result = "TopologyViolation"]_vars

\* C5 as the code has it: add_node(n) does not fail; when n declares an adjacent a
\* that is already present and neither n nor a is a Drone, n is appended and the
\* adjacency list of a is left as it was (no reverse link).
C5_EndpointsAccepted ==
    [][netOp'.name = "add_node" =>
        LET n == nodes'[Len(nodes')]
        IN  /\ netOp'.result = "Ok"
            /\ Len(nodes') = Len(nodes) + 1
            /\ \A a \in PresentAdjacents(nodes, n) :
                (n.node_type # "Drone" /\ nodes[FindNode(nodes, a)].node_type # "Drone")
                    => /\ FindNode(nodes', a) = FindNode(nodes, a)
                       /\ nodes'[FindNode(nodes', a)].adjacents
                            = nodes[FindNode(nodes, a)].adjacents]_vars

\* add_node appended an endpoint that declares a present endpoint as its adjacent
C5_Witness ==
    /\ netOp.name = "add_node"
    /\ LET n == nodes[Len(nodes)]
       IN  /\ n.node_type # "Drone"
           /\ \E i \in 1..(Len(nodes) - 1) :
                /\ nodes[i].node_type # "Drone"
                /\ Contains(n.adjacents, nodes[i].id)

\* ---------------------------------------------------------------------------
\* Packets and routing headers (wg_internal), as RoutingHandler builds them
\* ---------------------------------------------------------------------------

SourceRoutingHeaderNew(hops, hop_index) == [hops |-> hops, hop_index |-> hop_index]

\* SourceRoutingHeader::without_loops: every repeated id is cut to its last
\* occurrence, the order of what is left is kept
RECURSIVE WithoutLoopsFrom(_, _)
WithoutLoopsFrom(hops, i) ==
    IF i > Len(hops) THEN <<>>
    ELSE LET last == CHOOSE j \in i..Len(hops) :
                        /\ hops[j] = hops[i]
                        /\ \A k \in (j + 1)..Len(hops) : hops[k] # hops[i]
         IN <<hops[i]>> \o WithoutLoopsFrom(hops, last + 1)

WithoutLoops(shr) == [shr EXCEPT !.hops = WithoutLoopsFrom(shr.hops, 1)]

PacketNewFragment(shr, session_id, fragment) ==
    [pack_type |-> "MsgFragment", routing_header |-> shr, session_id |-> session_id,
     fragment |-> fragment]

PacketNewAck(shr, session_id, fragment_index) ==
    [pack_type |-> "Ack", routing_header |-> shr, session_id |-> session_id,
     fragment_index |-> fragment_index]

PacketNewFloodRequest(shr, session_id, flood_request) ==
    [pack_type |-> "FloodRequest", routing_header |-> shr, session_id |-> session_id,
     flood_request |-> flood_request]

PacketNewFloodResponse(shr, session_id, flood_response) ==
    [pack_type |-> "FloodResponse", routing_header |-> shr, session_id |-> session_id,
     flood_response |-> flood_response]

\* FloodRequest::new: the path trace starts empty
FloodRequestNew(flood_id, initiator_id) ==
    [flood_id |-> flood_id, initiator_id |-> initiator_id, path_trace |-> <<>>]

\* ---------------------------------------------------------------------------
\* RoutingHandler (src/src/routing_handler.rs)
\*
\* The operations are functions of a record h of the handler's fields plus
\* `out`, the packets put on neighbor channels and the events put on the
\* controller channel, in the order the operation produced them.  They return
\* [h |-> the handler afterwards, err |-> the Result].  The channels' state
\* (dead, ctrlDead) belongs to the environment and is read only.
\* ---------------------------------------------------------------------------

Ok == [kind |-> "Ok"]

Panic == [kind |-> "panic"]

Err(kind) == [kind |-> kind]

ErrId(kind, id) == [kind |-> kind, id |-> id]

Done(h, err) == [h |-> h, err |-> err]

PacketOut(to, packet) == [kind |-> "packet", to |-> to, packet |-> packet]

EventOut(event) == [kind |-> "event", event |-> event]

\* an output log that puts the newest entry first (a mutant)
EmitFirst(h, o) == [h EXCEPT !.out = <<o>> \o @]

Emit(h, o) == [h EXCEPT !.out = Append(@, o)]

\* RoutingHandler::new: the view holds the root alone, whatever the neighbors
RoutingHandlerNew(id, node_type, initial_neighbors) ==
    [nodes |-> <<NodeNew(id, node_type, <<>>)>>,
     neighbors |-> initial_neighbors,
     flood_seen |-> {},
     session_counter |-> 0,
     flood_counter |-> 0,
     buffer |-> EmptyMap,
     out |-> <<>>]

\* RoutingHandler::send
Send(h, to, packet) ==
    IF to \in dead THEN Done(h, Err("SendError"))
    ELSE LET h1 == Emit(h, PacketOut(to, packet))
         IN IF ctrlDead THEN Done(h1, Err("ControllerDisconnected"))
            ELSE Done(Emit(h1, EventOut([type |-> "PacketSent", packet |-> packet])), Ok)

\* a remove_neighbor that forgets the channel and keeps the topology (a mutant)
RemoveNeighborMapOnly(h, node_id) == [h EXCEPT !.neighbors = @ \ {node_id}]

\* RoutingHandler::remove_neighbor
RemoveNeighbor(h, node_id) ==
    [h EXCEPT !.neighbors = @ \ {node_id}, !.nodes = RemoveNode(@, node_id)]

\* RoutingHandler::add_neighbor; Network::update_node's error is dropped
AddNeighbor(h, node_id) ==
    [h EXCEPT !.neighbors = @ \cup {node_id},
              !.nodes = UpdateNode(@, SelfId, <<node_id>>).nodes]

\* RoutingHandler::send_packet_to_first_hop
SendPacketToFirstHop(h, packet) ==
    LET hops == packet.routing_header.hops
    IN IF Len(hops) > 1
       THEN IF hops[2] \in h.neighbors
            THEN Send(h, hops[2], packet)
            ELSE Done(h, ErrId("NodeIsNotANeighbor", hops[2]))
       ELSE Done(h, Ok)

\* the loop of RoutingHandler::try_send and the check that follows it; every
\* SendError removes a neighbor, so the loop ends
RECURSIVE TrySendLoop(_, _, _)
TrySendLoop(h, packet, destination) ==
    IF h.neighbors = {} THEN Done(h, Err("NoNeighborAssigned"))
    ELSE LET r == SendPacketToFirstHop(h, packet)
         IN CASE r.err.kind = "Ok" -> Done(r.h, Ok)
              [] r.err.kind = "SendError" ->
                    LET h1 == RemoveNeighbor(r.h, packet.routing_header.hops[2])
                        route == FindPath(h1.nodes, destination)
                    IN CASE route.kind = "panic" -> Done(h1, Panic)
                         [] route.kind = "Ok" ->
                               TrySendLoop(h1,
                                   [packet EXCEPT !.routing_header =
                                       WithoutLoops(SourceRoutingHeaderNew(route.path, 1))],
                                   destination)
                         [] OTHER -> Done(h1, ErrId("PathNotFound", destination))
              [] OTHER -> Done(r.h, r.err)

\* RoutingHandler::try_send
TrySend(h, packet) ==
    LET hops == packet.routing_header.hops
    IN IF hops = <<>> THEN Done(h, Err("NoDestination"))
       ELSE TrySendLoop(h, packet, hops[Len(hops)])

\* the loop of RoutingHandler::start_flood over a clone of the neighbors; the
\* map's iteration order is not specified and the handler's fields after the
\* loop do not depend on it
RECURSIVE StartFloodLoop(_, _, _)
StartFloodLoop(h, targets, packet) ==
    IF targets = {} THEN h
    ELSE LET n == CHOOSE x \in targets : \A y \in targets : x <= y
         IN StartFloodLoop(IF n \in dead THEN RemoveNeighbor(h, n)
                                        ELSE Emit(h, PacketOut(n, packet)),
                           targets \ {n}, packet)

\* the id a new flood or a new message gets from its counter
NextIdStale(counter) == counter

NextId(counter) == counter + 1

\* RoutingHandler::start_flood of the handler whose id is id
NodeStartFlood(id, h) ==
    LET h1 == [h EXCEPT !.session_counter = NextId(@), !.flood_counter = NextId(@)]
        packet == PacketNewFloodRequest(SourceRoutingHeaderNew(<<>>, 0), h1.session_counter,
                                        FloodRequestNew(h1.flood_counter, id))
    IN IF ctrlDead THEN Done(h1, Err("SendError"))
       ELSE Done(StartFloodLoop(
                    Emit(h1, EventOut([type |-> "FloodStarted",
                                       flood_id |-> h1.flood_counter, initiator |-> id])),
                    h1.neighbors, packet), Ok)

\* RoutingHandler::start_flood
StartFlood(h) == NodeStartFlood(SelfId, h)

\* the adjacents handle_flood_response gives the i-th node of the trace
TraceNeighbors(path_trace, i) ==
    (IF i > 1 THEN <<path_trace[i - 1][1]>> ELSE <<>>)
        \o (IF i + 1 <= Len(path_trace) THEN <<path_trace[i + 1][1]>> ELSE <<>>)

RECURSIVE FloodResponseLoop(_, _, _)
FloodResponseLoop(ns, path_trace, i) ==
    IF i > Len(path_trace) THEN ns
    ELSE LET adj == TraceNeighbors(path_trace, i)
             upd == UpdateNode(ns, path_trace[i][1], adj)
         IN FloodResponseLoop(
                IF upd.ok THEN upd.nodes
                ELSE AddNode(ns, NodeNew(path_trace[i][1], path_trace[i][2], adj)),
                path_trace, i + 1)

\* a handle_flood_response that takes the response of any flood (a mutant)
HandleFloodResponseAnyFlood(h, flood_response) ==
    [h EXCEPT !.nodes = FloodResponseLoop(@, flood_response.path_trace, 1)]

\* RoutingHandler::handle_flood_response
HandleFloodResponse(h, flood_response) ==
    IF flood_response.flood_id = h.flood_counter
    THEN [h EXCEPT !.nodes = FloodResponseLoop(@, flood_response.path_trace, 1)]
    ELSE h

\* the forwarding loop of handle_flood_request, in the order the map yields
\* the neighbors; the first failed send ends the operation
RECURSIVE ForwardLoop(_, _, _, _, _)
ForwardLoop(h, order, k, prev_hop, packet) ==
    IF k > Len(order) THEN Done(h, Ok)
    ELSE IF order[k] = prev_hop THEN ForwardLoop(h, order, k + 1, prev_hop, packet)
    ELSE IF order[k] \in dead THEN Done(h, Err("SendError"))
    ELSE ForwardLoop(Emit(h, PacketOut(order[k], packet)), order, k + 1, prev_hop, packet)

\* the route of a flood response when find_path has no path to the initiator
ReversedTrace(path_trace, initiator_id) ==
    LET route == Reverse([i \in 1..Len(path_trace) |-> path_trace[i][1]])
    IN IF route[Len(route)] # initiator_id THEN Append(route, initiator_id) ELSE route

\* whether handle_flood_request answers instead of forwarding
AnswersOnlyWhenLeaf(inserted, n_neighbors) == n_neighbors = 1

Answers(inserted, n_neighbors) == ~inserted \/ n_neighbors = 1

\* RoutingHandler::handle_flood_request of the handler whose id is id; order
\* lists the neighbors as the map yields them
NodeHandleFloodRequest(id, h, flood_request, session_id, order) ==
    LET trace == flood_request.path_trace
        prev_hop == IF trace = <<>> THEN flood_request.initiator_id ELSE trace[Len(trace)][1]
        pushed == [flood_request EXCEPT !.path_trace = Append(@, <<id, "Drone">>)]
        flood_session == <<flood_request.flood_id, flood_request.initiator_id>>
        inserted == flood_session \notin h.flood_seen
        h1 == [h EXCEPT !.flood_seen = @ \cup {flood_session}]
    IN IF Answers(inserted, Cardinality(h.neighbors))
       THEN LET found == FindPath(h1.nodes, flood_request.initiator_id)
                route == IF found.kind = "Ok"
                         THEN SourceRoutingHeaderNew(found.path, 1)
                         ELSE SourceRoutingHeaderNew(
                                  ReversedTrace(pushed.path_trace, flood_request.initiator_id), 1)
                flood_response == [flood_id |-> flood_request.flood_id,
                                   path_trace |-> pushed.path_trace]
            IN IF found.kind = "panic" THEN Done(h1, Panic)
               ELSE TrySend(h1, PacketNewFloodResponse(route, session_id, flood_response))
       ELSE ForwardLoop(h1, order, 1, prev_hop,
                        PacketNewFloodRequest(SourceRoutingHeaderNew(<<>>, 0), session_id, pushed))

\* RoutingHandler::handle_flood_request
HandleFloodRequest(h, flood_request, session_id, order) ==
    NodeHandleFloodRequest(SelfId, h, flood_request, session_id, order)

\* RoutingHandler::handle_nack
HandleNack(h, nack, session_id, source_id) ==
    CASE nack.nack_type.kind = "ErrorInRouting" ->
            LET f == StartFlood(RemoveNeighbor(h, nack.nack_type.id))
                packet == GetFragmentById(f.h.buffer, session_id, nack.fragment_index, source_id)
            IN IF f.err.kind # "Ok" THEN f
               ELSE IF packet.kind = "Some" THEN TrySend(f.h, packet.packet) ELSE Done(f.h, Ok)
      [] nack.nack_type.kind = "Dropped" ->
            StartFlood([h EXCEPT !.nodes = RemoveNode(@, source_id)])
      [] nack.nack_type.kind = "DestinationIsDrone" ->
            Done([h EXCEPT !.nodes = ChangeNodeType(@, source_id, "Drone")], Ok)
      [] OTHER -> Done(h, Ok)

\* the loop of RoutingHandler::send_message over the chunks
RECURSIVE SendMessageLoop(_, _, _, _)
SendMessageLoop(h, message, shr, i) ==
    IF i >= NumChunks(message) THEN Done(h, Ok)
    ELSE LET packet == PacketNewFragment(shr, h.session_counter, FragmentOf(message, i))
             r == TrySend(h, packet)
         IN IF r.err.kind # "Ok" THEN r
            ELSE SendMessageLoop(
                    [r.h EXCEPT !.buffer = BufferInsert(@, packet, h.session_counter, SelfId)],
                    message, shr, i + 1)

\* RoutingHandler::send_message
SendMessage(h, message, destination) ==
    LET h1 == [h EXCEPT !.session_counter = NextId(@)]
        route == FindPath(h1.nodes, destination)
    IN CASE route.kind = "panic" -> Done(h1, Panic)
         [] route.kind = "Ok" ->
               SendMessageLoop(h1, message,
                               WithoutLoops(SourceRoutingHeaderNew(route.path, 1)), 0)
         [] OTHER -> Done(h1, ErrId("PathNotFound", destination))

\* RoutingHandler::handle_ack
HandleAck(h, ack, session_id, from) ==
    LET r == MarkAsReceived(h.buffer, session_id, ack.fragment_index, from)
    IN IF r.panic THEN Done(h, Panic) ELSE Done([h EXCEPT !.buffer = r.buffer], Ok)

RECURSIVE RetryLoop(_, _, _)
RetryLoop(h, packets, k) ==
    IF k > Len(packets) THEN Done(h, Ok)
    ELSE LET r == TrySend(h, packets[k])
         IN IF r.err.kind # "Ok" THEN r ELSE RetryLoop(r.h, packets, k + 1)

\* RoutingHandler::retry_send_all
RetrySendAll(h, session_id, from) ==
    LET packets == GetNotReceived(h.buffer, session_id, from)
    IN IF packets.kind = "Some" THEN RetryLoop(h, packets.packets, 1) ELSE Done(h, Ok)

\* RoutingHandler::retry_send
RetrySend(h, session_id, fragment_index, from) ==
    LET packet == GetFragmentById(h.buffer, session_id, fragment_index, from)
    IN IF packet.kind = "Some" THEN TrySend(h, packet.packet) ELSE Done(h, Ok)

\* RoutingHandler::send_ack
SendAck(h, shr, session_id, fragment_index) ==
    TrySend(h, PacketNewAck(shr, session_id, fragment_index))

(***************************************************************************)
(* The RoutingHandler as a state machine: RoutingHandler::new with any     *)
(* neighbors, then its public operations on any arguments, while neighbor  *)
(* channels and the controller channel may lose their receivers.  A panic  *)
(* ends the handler.                                                       *)
(***************************************************************************)
Others == NodeIds \ {SelfId}

\* the roles of the nodes around the handler
RoleOf(id) == IF id = SelfId THEN "Client" ELSE IF id % 2 = 0 THEN "Drone" ELSE "Server"

\* the path traces of received flood requests: no id twice, the last entry is
\* the node the request came from, and every node that forwards a request
\* pushes itself as a Drone
RequestTraces ==
    {[i \in 1..Len(ids) |-> <<ids[i], "Drone">>] :
        ids \in {x \in SeqsUpTo(NodeIds, MaxTrace) :
                    NoRepeat(x) /\ (x # <<>> => x[Len(x)] # SelfId)}}

\* the path traces of received flood responses: no id twice
ResponseTraces ==
    {[i \in 1..Len(ids) |-> <<ids[i], RoleOf(ids[i])>>] :
        ids \in {x \in SeqsUpTo(NodeIds, MaxTrace) : x # <<>> /\ NoRepeat(x)}}

\* the session and the fragment index of the Nacks the handler is given
NackSession == 1

NackFragment == 0

NackTypes ==
    {[kind |-> "ErrorInRouting", id |-> n] : n \in NodeIds}
        \cup {[kind |-> "Dropped"], [kind |-> "DestinationIsDrone"]}
        \cup {[kind |-> "UnexpectedRecipient", id |-> n] : n \in NodeIds}

Messages == {Payload(n, 37) : n \in {0, 1, FragSize + 1}}

FragmentIndexes == 0..1

\* the routing headers send_ack is given: routes from this node
AckRoutes == {x \in SeqsUpTo(NodeIds, 3) : NoRepeat(x) /\ (x # <<>> => x[1] = SelfId)}

\* the orders in which a map of these keys can yield them
Orders(S) == {o \in [1..Cardinality(S) -> S] : NoRepeat(o)}

Handler ==
    [nodes |-> nodes, neighbors |-> neighbors, flood_seen |-> flood_seen,
     session_counter |-> session_counter, flood_counter |-> flood_counter,
     buffer |-> buffer, out |-> <<>>]

Running == hOp.result.kind # "panic" /\ hOp.count < MaxHandlerOps

\* the record of a step that sends nothing and cannot fail
Quiet(name, args) ==
    [name |-> name, args |-> args, result |-> Ok, out |-> <<>>, count |-> hOp.count + 1]

\* the handler's fields after an operation, and the record of the operation
Commit(name, args, r) ==
    /\ nodes' = r.h.nodes
    /\ neighbors' = r.h.neighbors
    /\ flood_seen' = r.h.flood_seen
    /\ session_counter' = r.h.session_counter
    /\ flood_counter' = r.h.flood_counter
    /\ buffer' = r.h.buffer
    /\ dead' = dead \cap r.h.neighbors
    /\ hEver' = hEver \cup r.h.neighbors
    /\ hOp' = [name |-> name, args |-> args, result |-> r.err, out |-> r.h.out,
               count |-> hOp.count + 1]
    /\ UNCHANGED <<netOp, asmVars, floodVars, bufOp, bufMarked, bufTotal, ctrlDead, trySend>>

HInit ==
    /\ \E ns \in SUBSET Others :
        LET h == RoutingHandlerNew(SelfId, "Client", ns)
        IN /\ nodes = h.nodes
           /\ neighbors = h.neighbors
           /\ flood_seen = h.flood_seen
           /\ session_counter = h.session_counter
           /\ flood_counter = h.flood_counter
           /\ buffer = h.buffer
    /\ dead = {}
    /\ ctrlDead = FALSE
    /\ hOp = [name |-> "new", args |-> <<>>, result |-> Ok, out |-> <<>>, count |-> 0]
    /\ hSessions = EmptyMap
    /\ hEver = neighbors
    /\ trySend = [pc |-> "idle"]
    /\ netOp = [name |-> "new", count |-> 0]
    /\ bufOp = [name |-> "new"]
    /\ bufMarked = EmptyMap
    /\ bufTotal = EmptyMap
    /\ AsmIdle
    /\ FloodIdle

\* the receiver of a neighbor's channel is dropped
Disconnect ==
    /\ Running
    /\ \E n \in neighbors \ dead :
        /\ dead' = dead \cup {n}
        /\ hOp' = Quiet("disconnect", <<n>>)
    /\ UNCHANGED <<netVars, asmVars, floodVars, bufVars, neighbors, flood_seen, session_counter,
                   flood_counter, ctrlDead, hSessions, hEver, trySend>>

\* the receiver of the controller's channel is dropped
ControllerDisconnect ==
    /\ Running
    /\ ~ctrlDead
    /\ ctrlDead' = TRUE
    /\ hOp' = Quiet("controller_disconnect", <<>>)
    /\ UNCHANGED <<netVars, asmVars, floodVars, bufVars, neighbors, flood_seen, session_counter,
                   flood_counter, dead, hSessions, hEver, trySend>>

HAddNeighbor ==
    /\ Running
    /\ \E node_id \in Others :
        /\ nodes' = AddNeighbor(Handler, node_id).nodes
        /\ neighbors' = AddNeighbor(Handler, node_id).neighbors
        /\ dead' = dead \ {node_id}
        /\ hEver' = hEver \cup {node_id}
        /\ hOp' = Quiet("add_neighbor", <<node_id>>)
    /\ UNCHANGED <<netOp, asmVars, floodVars, bufVars, flood_seen, session_counter, flood_counter,
                   ctrlDead, hSessions, trySend>>

HRemoveNeighbor ==
    /\ Running
    /\ \E node_id \in Others :
        Commit("remove_neighbor",
               <<node_id, node_id \in neighbors, FindNode(nodes, node_id) # 0>>,
               Done(RemoveNeighbor(Handler, node_id), Ok))
    /\ UNCHANGED hSessions

HStartFlood ==
    /\ Running
    /\ Commit("start_flood",
              <<neighbors \cap dead, {x \in neighbors \cap dead : FindNode(nodes, x) # 0}>>,
              StartFlood(Handler))
    /\ UNCHANGED hSessions

HHandleFloodResponse ==
    /\ Running
    /\ \E flood_id \in 0..MaxFlood, path_trace \in ResponseTraces :
        Commit("handle_flood_response", <<flood_id, path_trace>>,
               Done(HandleFloodResponse(Handler,
                        [flood_id |-> flood_id, path_trace |-> path_trace]), Ok))
    /\ UNCHANGED hSessions

HHandleFloodRequest ==
    /\ Running
    /\ \E flood_id \in 1..MaxFlood, initiator_id \in NodeIds, path_trace \in RequestTraces,
          order \in Orders(neighbors) :
        Commit("handle_flood_request",
               <<flood_id, initiator_id, path_trace,
                 <<flood_id, initiator_id>> \in flood_seen>>,
               HandleFloodRequest(Handler,
                   [flood_id |-> flood_id, initiator_id |-> initiator_id,
                    path_trace |-> path_trace], 1, order))
    /\ UNCHANGED hSessions

HHandleNack ==
    /\ Running
    /\ \E nack_type \in NackTypes, source_id \in Others :
        Commit("handle_nack", <<nack_type, source_id>>,
               HandleNack(Handler, [fragment_index |-> NackFragment, nack_type |-> nack_type],
                          NackSession, source_id))
    /\ UNCHANGED hSessions

HSendMessage ==
    /\ Running
    /\ \E message \in Messages, destination \in NodeIds :
        LET r == SendMessage(Handler, message, destination)
        IN /\ Commit("send_message", <<Len(message), destination>>, r)
           /\ hSessions' =
                IF r.err.kind = "Ok"
                THEN MapInsert(hSessions, r.h.session_counter,
                               [destination |-> destination, total |-> NumChunks(message),
                                acked |-> {}])
                ELSE hSessions

HHandleAck ==
    /\ Running
    /\ \E fragment_index \in FragmentIndexes, session_id \in 1..MaxSession, from \in NodeIds :
        LET r == HandleAck(Handler, [fragment_index |-> fragment_index], session_id, from)
        IN /\ Commit("handle_ack", <<fragment_index, session_id, from>>, r)
           /\ hSessions' =
                IF /\ r.err.kind = "Ok"
                   /\ session_id \in DOMAIN hSessions
                   /\ hSessions[session_id].destination = from
                   /\ fragment_index < hSessions[session_id].total
                THEN [hSessions EXCEPT ![session_id].acked = @ \cup {fragment_index}]
                ELSE hSessions

HRetrySendAll ==
    /\ Running
    /\ \E session_id \in 1..MaxSession, from \in {SelfId, SelfId + 1} :
        Commit("retry_send_all", <<session_id, from>>, RetrySendAll(Handler, session_id, from))
    /\ UNCHANGED hSessions

HRetrySend ==
    /\ Running
    /\ \E session_id \in 1..MaxSession, from \in {SelfId, SelfId + 1} :
        Commit("retry_send", <<session_id, from>>, RetrySend(Handler, session_id, 0, from))
    /\ UNCHANGED hSessions

HSendAck ==
    /\ Running
    /\ \E hops \in AckRoutes :
        Commit("send_ack", <<hops>>, SendAck(Handler, SourceRoutingHeaderNew(hops, 1), 1, 0))
    /\ UNCHANGED hSessions

Next ==
    \/ Disconnect
    \/ ControllerDisconnect
    \/ HAddNeighbor
    \/ HRemoveNeighbor
    \/ HStartFlood
    \/ HHandleFloodResponse
    \/ HHandleFloodRequest
    \/ HHandleNack
    \/ HSendMessage
    \/ HHandleAck
    \/ HRetrySendAll
    \/ HRetrySend
    \/ HSendAck

Spec == HInit /\ [][Next]_vars

\* the packets of one kind an operation put on neighbor channels
Sent(op, pack_type) ==
    {i \in 1..Len(op.out) : op.out[i].kind = "packet" /\ op.out[i].packet.pack_type = pack_type}

\* C7: after a send_message to d that succeeded with session s, once an Ack of
\* session s from d has been handled for every fragment index of the message,
\* the send buffer holds no entry of session s
C7_AckedSessionCleared ==
    \A s \in DOMAIN hSessions :
        hSessions[s].acked = 0..(hSessions[s].total - 1)
            => \A key \in DOMAIN buffer : key[1] # s

\* C8: a handle_flood_request whose (flood_id, initiator_id) is already in
\* flood_seen forwards no FloodRequest and sends at most one FloodResponse
C8_DuplicateNotForwarded ==
    [][(/\ hOp'.name = "handle_flood_request"
        /\ hOp'.count = hOp.count + 1
        /\ <<hOp'.args[1], hOp'.args[2]>> \in flood_seen)
            => /\ Sent(hOp', "FloodRequest") = {}
               /\ Cardinality(Sent(hOp', "FloodResponse")) <= 1]_vars

\* a handler with two neighbors has answered a duplicate request with one response
C8_Witness ==
    /\ hOp.name = "handle_flood_request"
    /\ hOp.args[4]
    /\ Cardinality(neighbors) >= 2
    /\ Cardinality(Sent(hOp, "FloodResponse")) = 1
    /\ hOp.result = Ok

\* C9: every packet the handler puts on a neighbor channel has a routing
\* header whose hops hold no node id twice
C9_HopsLoopFree ==
    \A i \in 1..Len(hOp.out) :
        hOp.out[i].kind = "packet" => NoRepeat(hOp.out[i].packet.routing_header.hops)

\* C10: no step lowers session_counter or flood_counter; a start_flood takes a
\* flood id, and a send_message that sends a fragment takes a session id, that
\* is the counter after the step and is greater than the counter before it,
\* hence greater than every id given out before
C10_CountersMonotone ==
    [][/\ session_counter' >= session_counter
       /\ flood_counter' >= flood_counter
       /\ (hOp'.name = "start_flood" /\ hOp'.count = hOp.count + 1)
            => /\ flood_counter' > flood_counter
               /\ session_counter' > session_counter
               /\ \A i \in 1..Len(hOp'.out) :
                    /\ hOp'.out[i].kind = "event"
                        => hOp'.out[i].event.flood_id = flood_counter'
                    /\ hOp'.out[i].kind = "packet"
                        => /\ hOp'.out[i].packet.flood_request.flood_id = flood_counter'
                           /\ hOp'.out[i].packet.session_id = session_counter'
       /\ (hOp'.name = "send_message" /\ hOp'.count = hOp.count + 1)
            => \A i \in Sent(hOp', "MsgFragment") :
                    /\ hOp'.out[i].packet.session_id = session_counter'
                    /\ session_counter' > session_counter]_vars

\* a message has sent a fragment after a flood was started: both counters
\* have given out ids
C10_Witness ==
    /\ hOp.name = "send_message"
    /\ Sent(hOp, "MsgFragment") # {}
    /\ flood_counter >= 1
    /\ session_counter >= 2

\* a step of the named handler operation
StepOf(name) == hOp'.name = name /\ hOp'.count = hOp.count + 1

\* C11: send_message with an empty payload returns the EmptyMessage error,
\* leaves the counters, the send buffer, the topology, the neighbor map and
\* flood_seen as they were, and emits no packet and no event
C11_EmptyMessageRejected ==
    [][(StepOf("send_message") /\ hOp'.args[1] = 0)
            => /\ hOp'.result.kind = "EmptyMessage"
               /\ hOp'.out = <<>>
               /\ UNCHANGED <<session_counter, flood_counter, buffer, nodes, neighbors,
                              flood_seen>>]_vars

\* ceil(n / 128), as the least count of 128-byte fragments that holds n bytes
CeilFragments(n) == CHOOSE t \in 0..n : t * FragSize >= n /\ \A u \in 0..(t - 1) : u * FragSize < n

\* C12: a send_message of n > 0 bytes to a destination that find_path routes
\* through a neighbor, with that neighbor's channel and the event channel
\* alive, puts exactly ceil(n/128) MsgFragment packets on the channel of the
\* route's first hop, in ascending fragment_index from 0, each with
\* total_n_fragments = ceil(n/128), the new session id and hops equal to the
\* route, and each followed by its PacketSent event
C12_FragmentsSentInOrder ==
    [][(/\ StepOf("send_message")
        /\ hOp'.args[1] > 0
        /\ FindPath(nodes, hOp'.args[2]).kind = "Ok"
        /\ Len(FindPath(nodes, hOp'.args[2]).path) >= 2
        /\ FindPath(nodes, hOp'.args[2]).path[2] \in neighbors \ dead
        /\ ~ctrlDead)
            => LET route == FindPath(nodes, hOp'.args[2]).path
                   total == CeilFragments(hOp'.args[1])
                   out == hOp'.out
               IN /\ hOp'.result = Ok
                  /\ Len(out) = 2 * total
                  /\ \A i \in 0..(total - 1) :
                        /\ out[2 * i + 1].kind = "packet"
                        /\ out[2 * i + 1].to = route[2]
                        /\ out[2 * i + 1].packet.pack_type = "MsgFragment"
                        /\ out[2 * i + 1].packet.fragment.fragment_index = i
                        /\ out[2 * i + 1].packet.fragment.total_n_fragments = total
                        /\ out[2 * i + 1].packet.session_id = session_counter'
                        /\ out[2 * i + 1].packet.routing_header.hops = route
                        /\ out[2 * i + 2] =
                            EventOut([type |-> "PacketSent", packet |-> out[2 * i + 1].packet])]_vars

\* a message of two fragments has been sent through a live neighbor
C12_Witness ==
    /\ hOp.name = "send_message"
    /\ hOp.args[1] = FragSize + 1
    /\ hOp.result = Ok
    /\ Cardinality(Sent(hOp, "MsgFragment")) = 2
    /\ Len(hOp.out) = 4

\* C13: every fragment send_message builds carries the byte count of its chunk
\* as length (128 for a full chunk, the remainder for a shorter last chunk),
\* the chunk in the first length bytes of data and zeros after it
C13_FragmentLength ==
    hOp.name = "send_message"
        => \A i \in Sent(hOp, "MsgFragment") :
            LET f == hOp.out[i].packet.fragment
                n == hOp.args[1]
                len == Min(FragSize, n - f.fragment_index * FragSize)
            IN /\ f.length = len
               /\ \A j \in 1..FragSize :
                    f.data[j] = IF j <= len
                                THEN Payload(n, 37)[f.fragment_index * FragSize + j]
                                ELSE 0

\* the fragment a Nack names is in the send buffer and not acked
Unacked(session_id, fragment_index) ==
    \E key \in DOMAIN buffer :
        /\ key[1] = session_id
        /\ fragment_index < Len(buffer[key])
        /\ ~buffer[key][fragment_index + 1].received

\* without node x the topology still routes to d through a neighbor whose
\* channel is alive
RoutedAround(x, d) ==
    LET route == FindPath(RemoveNode(nodes, x), d)
    IN /\ route.kind = "Ok"
       /\ Len(route.path) >= 2
       /\ route.path[2] \in (neighbors \ {x}) \ dead

\* C14: a Nack ErrorInRouting(x) for a fragment that is unacked in the send
\* buffer, while the topology without x still routes to the destination and
\* the channels are alive, removes x from the neighbor map and the topology,
\* starts a flood and sends the fragment again with hops that end at the
\* destination and do not hold x
C14_NackRerouted ==
    [][(/\ StepOf("handle_nack")
        /\ hOp'.args[1].kind = "ErrorInRouting"
        /\ NackSession \in DOMAIN hSessions
        /\ Unacked(NackSession, NackFragment)
        /\ ~ctrlDead
        /\ RoutedAround(hOp'.args[1].id, hSessions[NackSession].destination))
            => LET x == hOp'.args[1].id
               IN /\ x \notin neighbors'
                  /\ \A i \in 1..Len(nodes') :
                        nodes'[i].id # x /\ x \notin Range(nodes'[i].adjacents)
                  /\ flood_counter' = flood_counter + 1
                  /\ \E i \in Sent(hOp', "MsgFragment") :
                        LET p == hOp'.out[i].packet
                        IN /\ p.session_id = NackSession
                           /\ p.fragment.fragment_index = NackFragment
                           /\ x \notin Range(p.routing_header.hops)
                           /\ p.routing_header.hops[Len(p.routing_header.hops)]
                                = hSessions[NackSession].destination]_vars

\* C15: a Nack DestinationIsDrone from x makes the role of node x Drone and
\* changes nothing else: both counters, the neighbor map, flood_seen, the send
\* buffer, every adjacency list and every other role stay, and no packet and
\* no event is emitted
C15_DestinationIsDroneOnly ==
    [][(StepOf("handle_nack") /\ hOp'.args[1].kind = "DestinationIsDrone")
            => /\ hOp'.result = Ok
               /\ hOp'.out = <<>>
               /\ UNCHANGED <<session_counter, flood_counter, neighbors, flood_seen, buffer>>
               /\ Len(nodes') = Len(nodes)
               /\ \A i \in 1..Len(nodes) :
                    /\ nodes'[i].id = nodes[i].id
                    /\ nodes'[i].adjacents = nodes[i].adjacents
                    /\ nodes'[i].node_type =
                        IF nodes[i].id = hOp'.args[2] THEN "Drone" ELSE nodes[i].node_type]_vars

\* a node that a flood response announced with another role is a Drone after
\* the Nack
C15_Witness ==
    /\ hOp.name = "handle_nack"
    /\ hOp.args[1].kind = "DestinationIsDrone"
    /\ RoleOf(hOp.args[2]) # "Drone"
    /\ \E i \in 1..Len(nodes) : nodes[i].id = hOp.args[2] /\ nodes[i].node_type = "Drone"

\* the links between consecutive entries of a path trace, in both directions
TraceLinks(path_trace) ==
    UNION {{<<path_trace[i][1], path_trace[i + 1][1]>>,
            <<path_trace[i + 1][1], path_trace[i][1]>>} : i \in 1..(Len(path_trace) - 1)}

\* C16: after a flood response whose flood_id is the local flood_counter,
\* every id of the path trace is a node of the topology and the adjacency
\* relation is what it was plus exactly the links between consecutive trace
\* entries in both directions (on a fresh node: exactly those links)
C16_TraceLinksExactly ==
    [][(StepOf("handle_flood_response") /\ hOp'.args[1] = flood_counter)
            => /\ \A i \in 1..Len(hOp'.args[2]) :
                    \E k \in 1..Len(nodes') : nodes'[k].id = hOp'.args[2][i][1]
               /\ Edges(nodes') = Edges(nodes) \cup TraceLinks(hOp'.args[2])]_vars

\* the events of one type an operation put on the controller channel
Events(op, type) ==
    {i \in 1..Len(op.out) : op.out[i].kind = "event" /\ op.out[i].event.type = type}

\* C17: a Nack UnexpectedRecipient(x), with the controller channel alive,
\* removes node x from the topology and starts a flood: flood_counter is
\* incremented, FloodStarted is emitted and a FloodRequest is sent to every
\* neighbor whose channel is alive
C17_UnexpectedRecipientFloods ==
    [][(StepOf("handle_nack") /\ hOp'.args[1].kind = "UnexpectedRecipient" /\ ~ctrlDead)
            => /\ \A i \in 1..Len(nodes') : nodes'[i].id # hOp'.args[1].id
               /\ flood_counter' = flood_counter + 1
               /\ Events(hOp', "FloodStarted") # {}
               /\ \A n \in neighbors \ dead :
                    \E i \in Sent(hOp', "FloodRequest") : hOp'.out[i].to = n]_vars

\* C18: in every start_flood, alone or inside handle_nack, the event
\* FloodStarted(new flood_counter, self) is emitted before any FloodRequest
\* is sent, and every request carries the new flood_counter, this node as
\* initiator, an empty path trace and an empty routing header; a start_flood
\* with the controller channel alive sends one to each neighbor whose channel
\* is alive
C18_FloodStartedFirst ==
    [][(StepOf("start_flood") \/ StepOf("handle_nack"))
            => /\ \A i \in Sent(hOp', "FloodRequest") :
                    /\ \E j \in 1..(i - 1) :
                        hOp'.out[j] = EventOut([type |-> "FloodStarted",
                                                flood_id |-> flood_counter',
                                                initiator |-> SelfId])
                    /\ hOp'.out[i].packet.flood_request =
                        [flood_id |-> flood_counter', initiator_id |-> SelfId,
                         path_trace |-> <<>>]
                    /\ hOp'.out[i].packet.routing_header.hops = <<>>
               /\ (StepOf("start_flood") /\ ~ctrlDead)
                    => /\ Cardinality(Events(hOp', "FloodStarted")) = 1
                       /\ {hOp'.out[i].to : i \in Sent(hOp', "FloodRequest")} = neighbors \ dead
                       /\ Cardinality(Sent(hOp', "FloodRequest"))
                            = Cardinality(neighbors \ dead)]_vars

\* a flood has been started towards two neighbors
C18_Witness ==
    /\ hOp.name = "start_flood"
    /\ hOp.result = Ok
    /\ Cardinality(Sent(hOp, "FloodRequest")) = 2
    /\ hOp.out[1].kind = "event"

\* C19: while the controller channel is alive, every packet an operation has
\* put on a neighbor channel is followed at once by the PacketSent event of
\* that packet, and there are as many PacketSent events as packets
C19_EveryPacketReported ==
    ~ctrlDead
        => /\ \A i \in 1..Len(hOp.out) :
                hOp.out[i].kind = "packet"
                    => /\ i < Len(hOp.out)
                       /\ hOp.out[i + 1] =
                            EventOut([type |-> "PacketSent", packet |-> hOp.out[i].packet])
           /\ Cardinality(Events(hOp, "PacketSent"))
                = Cardinality({i \in 1..Len(hOp.out) : hOp.out[i].kind = "packet"})

\* how many times x is in the sequence s
Count(s, x) == Cardinality({i \in 1..Len(s) : s[i] = x})

\* the adjacency list of the local node, or none when the topology lost it
LocalAdjacents(ns) ==
    IF FindNode(ns, SelfId) # 0 THEN {ns[FindNode(ns, SelfId)].adjacents} ELSE {}

\* x is not a neighbor, not a node of the topology and in no adjacency list
Gone(x) ==
    /\ x \notin neighbors'
    /\ \A i \in 1..Len(nodes') : nodes'[i].id # x /\ x \notin Range(nodes'[i].adjacents)

\* the remove_neighbor(x) of this step repeats the one before it
RemovedAgain == hOp.name = "remove_neighbor" /\ hOp.args[1] = hOp'.args[1]

HandlerUnchanged ==
    UNCHANGED <<nodes, neighbors, flood_seen, session_counter, flood_counter, buffer>>

Without(ns, x) ==
    LET kept == SelectSeq(ns, LAMBDA n : n.id # x)
    IN [i \in 1..Len(kept) |->
            [kept[i] EXCEPT !.adjacents = SelectSeq(@, LAMBDA a : a # x)]]

C21_RootIsLocal == nodes # <<>> /\ nodes[1].id = SelfId

\* the path trace of a flood request after this node has pushed itself
Pushed(path_trace) == Append(path_trace, <<SelfId, "Drone">>)

\* the node a flood request came from
PrevHop(path_trace, initiator_id) ==
    IF path_trace = <<>> THEN initiator_id ELSE path_trace[Len(path_trace)][1]

\* the packets of one kind an operation put on the channel of neighbor n
SentTo(op, pack_type, n) == {i \in Sent(op, pack_type) : op.out[i].to = n}

\* what a handle_flood_request step has recorded and sent: the key is in
\* flood_seen and every packet carries the pushed trace
FloodRequestHandled ==
    /\ <<hOp'.args[1], hOp'.args[2]>> \in flood_seen'
    /\ \A i \in Sent(hOp', "FloodResponse") :
        hOp'.out[i].packet.flood_response =
            [flood_id |-> hOp'.args[1], path_trace |-> Pushed(hOp'.args[3])]
    /\ \A i \in Sent(hOp', "FloodRequest") :
        /\ hOp'.out[i].packet.flood_request =
            [flood_id |-> hOp'.args[1], initiator_id |-> hOp'.args[2],
             path_trace |-> Pushed(hOp'.args[3])]
        /\ hOp'.out[i].packet.routing_header = SourceRoutingHeaderNew(<<>>, 0)

\* a handle_flood_request step has answered with one response, or has
\* forwarded the request once to every neighbor but the previous hop
AnsweredOrForwarded ==
    IF hOp'.args[4] \/ Cardinality(neighbors) = 1
    THEN /\ Cardinality(Sent(hOp', "FloodResponse")) = 1
         /\ Sent(hOp', "FloodRequest") = {}
    ELSE /\ Sent(hOp', "FloodResponse") = {}
         /\ \A n \in NodeIds :
                Cardinality(SentTo(hOp', "FloodRequest", n)) =
                    IF n \in neighbors \ {PrevHop(hOp'.args[3], hOp'.args[2])} THEN 1 ELSE 0

\* C22: handle_flood_request pushes (self, Drone) on the trace and records
\* (flood_id, initiator_id) in flood_seen; when the key was there already or
\* the node has exactly one neighbor it sends exactly one FloodResponse with
\* the pushed trace and forwards nothing; otherwise it sends no response and
\* forwards the request, with an empty routing header, once to every neighbor
\* except the previous hop
C22_AnswerOrForward ==
    [][StepOf("handle_flood_request") => FloodRequestHandled /\ AnsweredOrForwarded]_vars

\* C23: a handle_flood_response whose flood_id is not the current
\* flood_counter, a late response to an earlier flood of this node included,
\* leaves the topology and every other field of the handler as they were and
\* sends nothing
C23_MismatchedResponseDiscarded ==
    [][(StepOf("handle_flood_response") /\ hOp'.args[1] # flood_counter)
            => /\ UNCHANGED <<nodes, neighbors, flood_seen, session_counter, flood_counter,
                             buffer>>
               /\ hOp'.out = <<>>
               /\ hOp'.result = Ok]_vars

\* a response to an earlier flood of this node, naming a node the topology
\* does not know, has been handled
C23_Witness ==
    /\ hOp.name = "handle_flood_response"
    /\ hOp.args[1] >= 1
    /\ hOp.args[1] < flood_counter
    /\ \E i \in 1..Len(hOp.args[2]) : FindNode(nodes, hOp.args[2][i][1]) = 0

\* C24: in a start_flood that gets to its loop, every neighbor whose channel
\* fails is removed from the neighbor map and from the topology, every other
\* neighbor stays and is sent the request once, and start_flood returns Ok
C24_FloodSurvivesDeadNeighbor ==
    [][(StepOf("start_flood") /\ ~ctrlDead)
            => /\ \A x \in neighbors \cap dead : Gone(x)
               /\ \A n \in neighbors \ dead :
                    /\ n \in neighbors'
                    /\ Cardinality(SentTo(hOp', "FloodRequest", n)) = 1
               /\ hOp'.result = Ok]_vars

\* a flood has lost a neighbor the topology knew and has reached another one
C24_Witness ==
    /\ hOp.name = "start_flood"
    /\ hOp.args[2] # {}
    /\ Sent(hOp, "FloodRequest") # {}
    /\ hOp.result = Ok

\* the hops of the one packet this step gives try_send first: the route of a
\* send_ack, or the route send_message finds for a message of one fragment
FirstRoute ==
    IF hOp'.name = "send_ack" THEN hOp'.args[1]
    ELSE IF /\ hOp'.name = "send_message"
            /\ hOp'.args[1] \in 1..FragSize
            /\ FindPath(nodes, hOp'.args[2]).kind = "Ok"
         THEN WithoutLoopsFrom(FindPath(nodes, hOp'.args[2]).path, 1)
         ELSE <<>>

\* this step is a try_send whose first channel send fails
FirstHopFails ==
    /\ hOp'.count = hOp.count + 1
    /\ Len(FirstRoute) > 1
    /\ FirstRoute[2] \in neighbors \cap dead

\* the packet went out once, on the route find_path gives afterwards
DeliveredOnRecomputedRoute ==
    LET d == FirstRoute[Len(FirstRoute)]
        route == FindPath(nodes', d)
        packets == {i \in 1..Len(hOp'.out) : hOp'.out[i].kind = "packet"}
    IN /\ hOp'.result = Ok
       /\ route.kind = "Ok"
       /\ Cardinality(packets) = 1
       /\ \A i \in packets :
            /\ hOp'.out[i].packet.routing_header =
                    WithoutLoops(SourceRoutingHeaderNew(route.path, 1))
            /\ hOp'.out[i].to = route.path[2]

\* C25: when the channel of the first hop fails in try_send, that hop leaves
\* the neighbor map and the topology, and the operation ends with the packet
\* sent on the recomputed route (hop_index 1, no loops), or with the error
\* for no neighbor left when the neighbor map has become empty
C25_RerouteOrNoNeighbor ==
    [][FirstHopFails
            => /\ Gone(FirstRoute[2])
               /\ \/ DeliveredOnRecomputedRoute
                  \/ hOp'.result = Err("NoNeighborAssigned") /\ neighbors' = {}]_vars

\* the operation of this step put a packet on the channel of a node that was
\* a neighbor when it began
HandedToNeighbor ==
    \E i \in 1..Len(hOp'.out) : hOp'.out[i].kind = "packet" /\ hOp'.out[i].to \in neighbors

\* C26: a send_ack, or a send_message of a message that is not empty, returns
\* Ok only when a packet went to the channel of a neighbor; a send_ack whose
\* header has no hops fails with NoDestination, and one whose next hop is no
\* neighbor fails with NodeIsNotANeighbor; a send_message to the local node
\* does not return Ok and leaves the send buffer as it was
C26_NoSuccessWithoutSend ==
    [][/\ (StepOf("send_ack") \/ (StepOf("send_message") /\ hOp'.args[1] > 0))
            => (hOp'.result = Ok => HandedToNeighbor)
       /\ StepOf("send_ack")
            => /\ hOp'.args[1] = <<>> => hOp'.result = Err("NoDestination")
               /\ (Len(hOp'.args[1]) > 1 /\ hOp'.args[1][2] \notin neighbors)
                    => hOp'.result = ErrId("NodeIsNotANeighbor", hOp'.args[1][2])
       /\ (StepOf("send_message") /\ hOp'.args[1] > 0 /\ hOp'.args[2] = SelfId)
            => hOp'.result # Ok /\ buffer' = buffer]_vars

\* this step runs start_flood, alone or inside handle_nack
Floods ==
    \/ StepOf("start_flood")
    \/ StepOf("handle_nack") /\ hOp'.args[1].kind \in {"ErrorInRouting", "Dropped"}

\* the neighbors this step is told to remove
ToldToRemove ==
    IF hOp'.name = "remove_neighbor" THEN {hOp'.args[1]}
    ELSE IF hOp'.name = "handle_nack" /\ hOp'.args[1].kind = "ErrorInRouting"
         THEN {hOp'.args[1].id}
         ELSE {}

\* C27: with the controller channel dead, an operation that starts a flood
\* (the FloodStarted event fails) or that puts a packet on a neighbor channel
\* through send (the PacketSent event fails) returns ControllerDisconnected,
\* and the only neighbors it loses are those whose own channel is dead and
\* those it was told to remove
C27_ControllerFailureIsFatal ==
    [][(ctrlDead /\ hOp'.count = hOp.count + 1)
            => /\ Floods => hOp'.result = Err("ControllerDisconnected")
               /\ (\E i \in 1..Len(hOp'.out) :
                        /\ hOp'.out[i].kind = "packet"
                        /\ hOp'.out[i].packet.pack_type # "FloodRequest")
                    => hOp'.result = Err("ControllerDisconnected")
               /\ (neighbors \ neighbors') \subseteq (dead \cup ToldToRemove)]_vars

ShrReverse(shr) ==
    [hops |-> Reverse(shr.hops), hop_index |-> Len(shr.hops) - shr.hop_index - 1]

IncreaseHopIndex(shr) == [shr EXCEPT !.hop_index = @ + 1]

\* the MsgFragment arm of handle_packet; msgs are the calls of handle_msg
HandleMsgFragment(h, fr, ex, rc, pkt) ==
    LET idx == pkt.fragment.fragment_index
        shr == IncreaseHopIndex(ShrReverse(pkt.routing_header))
        same == [fragments |-> fr, expected |-> ex, received |-> rc,
                 result |-> [kind |-> "None"]]
    IN IF shr.hop_index # 1 THEN [h |-> h, err |-> Panic, asm |-> same, msgs |-> <<>>]
       ELSE LET a == SendAck(h, shr, pkt.session_id, idx)
                r == AddFragment(fr, ex, rc, pkt.fragment, pkt.session_id,
                                 pkt.routing_header.hops[1])
            IN IF a.err.kind # "Ok" THEN [h |-> a.h, err |-> a.err, asm |-> same, msgs |-> <<>>]
               ELSE [h |-> a.h,
                     err |-> IF r.result.kind = "panic" THEN Panic ELSE Ok,
                     asm |-> r,
                     msgs |-> IF r.result.kind = "Some"
                              THEN <<[msg |-> r.result.data,
                                      from |-> pkt.routing_header.hops[1],
                                      session_id |-> pkt.session_id]>>
                              ELSE <<>>]

\* the routes fragments arrive over: from their origin to this node
ProcRoutes ==
    {<<o, SelfId>> : o \in Others}
        \cup {r \in {<<o, x, SelfId>> : o \in Others, x \in Others} : r[1] # r[2]}

\* messages of one fragment and of two
ProcPayloads == {Payload(n, 37) : n \in {1, FragSize + 1}}

ProcInit ==
    /\ \E ns \in SUBSET Others :
        LET h == RoutingHandlerNew(SelfId, "Client", ns)
        IN /\ nodes = h.nodes
           /\ neighbors = h.neighbors
           /\ flood_seen = h.flood_seen
           /\ session_counter = h.session_counter
           /\ flood_counter = h.flood_counter
           /\ buffer = h.buffer
    /\ dead = {}
    /\ ctrlDead = FALSE
    /\ hOp = [name |-> "new", args |-> <<>>, result |-> Ok, out |-> <<>>, count |-> 0]
    /\ hSessions = EmptyMap
    /\ hEver = neighbors
    /\ trySend = [pc |-> "idle"]
    /\ netOp = [name |-> "new", count |-> 0]
    /\ bufOp = [name |-> "new"]
    /\ bufMarked = EmptyMap
    /\ bufTotal = EmptyMap
    /\ fragments = EmptyMap
    /\ expected_fragments = EmptyMap
    /\ received_fragments = EmptyMap
    /\ asmOp = [name |-> "new"]
    /\ handled = <<>>
    /\ FloodIdle
    /\ \E p \in ProcPayloads, s \in 1..MaxSession, route \in ProcRoutes :
        asmFeed = [payload |-> p, session_id |-> s, sender |-> route[1], route |-> route,
                   remaining |-> 0..(NumChunks(p) - 1)]

\* handle_packet is given fragment i of the message as it arrives at this node
ProcHandlePacket ==
    /\ Running
    /\ hOp.result = Ok
    /\ \E i \in asmFeed.remaining :
        LET pkt == PacketNewFragment(
                       SourceRoutingHeaderNew(asmFeed.route, Len(asmFeed.route) - 1),
                       asmFeed.session_id, FragmentOf(asmFeed.payload, i))
            r == HandleMsgFragment(Handler, fragments, expected_fragments,
                                   received_fragments, pkt)
        IN /\ nodes' = r.h.nodes
           /\ neighbors' = r.h.neighbors
           /\ flood_seen' = r.h.flood_seen
           /\ session_counter' = r.h.session_counter
           /\ flood_counter' = r.h.flood_counter
           /\ buffer' = r.h.buffer
           /\ dead' = dead \cap r.h.neighbors
           /\ hEver' = hEver \cup r.h.neighbors
           /\ hOp' = [name |-> "handle_packet", args |-> <<i>>, result |-> r.err,
                      out |-> r.h.out, count |-> hOp.count + 1]
           /\ fragments' = r.asm.fragments
           /\ expected_fragments' = r.asm.expected
           /\ received_fragments' = r.asm.received
           /\ asmOp' = [name |-> "add_fragment", fragment_index |-> i,
                        result |-> r.asm.result]
           /\ asmFeed' = [asmFeed EXCEPT !.remaining = @ \ {i}]
           /\ handled' = handled \o r.msgs
    /\ UNCHANGED <<netOp, bufOp, bufMarked, bufTotal, ctrlDead, hSessions, trySend, floodVars>>

ProcNext ==
    \/ ProcHandlePacket
    \/ Disconnect
    \/ ControllerDisconnect

SpecProc == ProcInit /\ [][ProcNext]_vars

\* the Ack handle_packet owes fragment i: along the reversed route, hop_index 1
AckOf(i) ==
    PacketNewAck(SourceRoutingHeaderNew(Reverse(asmFeed.route), 1), asmFeed.session_id, i)

\* C29: when the node the fragment came through is a neighbor and every
\* channel is alive, a handle_packet of fragment i sends exactly one Ack, of
\* the fragment's session and index, along the reversed route with hop_index
\* 1 to the node the fragment came through; handle_msg is called once, with
\* origin hops[0] and the session id, by the handle_packet of the last
\* fragment of the message to arrive, and by no other
C29_AckThenDeliver ==
    [][(/\ StepOf("handle_packet")
        /\ asmFeed.route[Len(asmFeed.route) - 1] \in neighbors \ dead
        /\ ~ctrlDead)
            => /\ Cardinality(Sent(hOp', "Ack")) = 1
               /\ \A k \in Sent(hOp', "Ack") :
                    /\ hOp'.out[k].packet = AckOf(hOp'.args[1])
                    /\ hOp'.out[k].to = asmFeed.route[Len(asmFeed.route) - 1]
               /\ IF asmFeed.remaining = {hOp'.args[1]}
                  THEN /\ Len(handled') = Len(handled) + 1
                       /\ handled'[Len(handled')].from = asmFeed.route[1]
                       /\ handled'[Len(handled')].session_id = asmFeed.session_id
                  ELSE handled' = handled]_vars

(***************************************************************************)
(* send_message to a server two hops away: the handler with its neighbors, *)
(* flood responses that tell it the routes through them, channels that     *)
(* lose their receiver, messages to the server and Acks.                   *)
(***************************************************************************)
MaxSendOps == 4     \* steps of the handler and its channels in this scenario

\* the server: a node that is no neighbor
FarId == MaxNode + 1

\* the trace of the flood response that came back through neighbor x
RelayTrace(x) == <<<<SelfId, "Client">>, <<x, "Drone">>, <<FarId, "Server">>>>

SendRunning == hOp.result.kind # "panic" /\ hOp.count < MaxSendOps

SendInit ==
    /\ \E ns \in SUBSET Others :
        LET h == RoutingHandlerNew(SelfId, "Client", ns)
        IN /\ nodes = h.nodes
           /\ neighbors = h.neighbors
           /\ flood_seen = h.flood_seen
           /\ session_counter = h.session_counter
           /\ flood_counter = h.flood_counter
           /\ buffer = h.buffer
    /\ dead = {}
    /\ ctrlDead = FALSE
    /\ hOp = [name |-> "new", args |-> <<>>, result |-> Ok, out |-> <<>>, count |-> 0]
    /\ hSessions = EmptyMap
    /\ hEver = neighbors
    /\ trySend = [pc |-> "idle"]
    /\ netOp = [name |-> "new", count |-> 0]
    /\ bufOp = [name |-> "new"]
    /\ bufMarked = EmptyMap
    /\ bufTotal = EmptyMap
    /\ AsmIdle
    /\ FloodIdle

SendDisconnect ==
    /\ SendRunning
    /\ \E n \in neighbors \ dead :
        /\ dead' = dead \cup {n}
        /\ hOp' = Quiet("disconnect", <<n>>)
    /\ UNCHANGED <<netVars, asmVars, floodVars, bufVars, neighbors, flood_seen, session_counter,
                   flood_counter, ctrlDead, hSessions, hEver, trySend>>

SendFloodResponse ==
    /\ SendRunning
    /\ \E x \in Others :
        Commit("handle_flood_response", <<flood_counter, RelayTrace(x)>>,
               Done(HandleFloodResponse(Handler,
                        [flood_id |-> flood_counter, path_trace |-> RelayTrace(x)]), Ok))
    /\ UNCHANGED hSessions

SendSendMessage ==
    /\ SendRunning
    /\ \E message \in Messages :
        Commit("send_message", <<Len(message), FarId>>, SendMessage(Handler, message, FarId))
    /\ UNCHANGED hSessions

SendHandleAck ==
    /\ SendRunning
    /\ \E fragment_index \in FragmentIndexes, session_id \in 1..MaxSession,
          from \in {SelfId, FarId} :
        Commit("handle_ack", <<fragment_index, session_id, from>>,
               HandleAck(Handler, [fragment_index |-> fragment_index], session_id, from))
    /\ UNCHANGED hSessions

SendNext ==
    \/ SendDisconnect
    \/ SendFloodResponse
    \/ SendSendMessage
    \/ SendHandleAck

SpecSend == SendInit /\ [][SendNext]_vars

\* C30: between operations, every entry of the send buffer has as many
\* elements as the total_n_fragments of its packets, element i holds the
\* packet of fragment_index i, and some element is not acked
C30_BufferEntriesWhole ==
    \A key \in DOMAIN buffer :
        /\ buffer[key] # <<>>
        /\ \A i \in 1..Len(buffer[key]) :
            /\ Len(buffer[key]) = buffer[key][i].packet.fragment.total_n_fragments
            /\ buffer[key][i].packet.fragment.fragment_index = i - 1
        /\ \E i \in 1..Len(buffer[key]) : ~buffer[key][i].received

(***************************************************************************)
(* RoutingHandler::try_send step by step: the handler is set up by         *)
(* add_neighbor and Nacks, then one call of try_send runs one loop         *)
(* iteration per step, while channels may lose their receivers between     *)
(* iterations.  The thread that runs try_send waits for nothing, so an     *)
(* iteration that can run does run.                                        *)
(***************************************************************************)
TryInit ==
    /\ \E ns \in SUBSET Others :
        LET h == RoutingHandlerNew(SelfId, "Client", ns)
        IN /\ nodes = h.nodes
           /\ neighbors = h.neighbors
           /\ flood_seen = h.flood_seen
           /\ session_counter = h.session_counter
           /\ flood_counter = h.flood_counter
           /\ buffer = h.buffer
    /\ dead = {}
    /\ ctrlDead = FALSE
    /\ hOp = [name |-> "new", args |-> <<>>, result |-> Ok, out |-> <<>>, count |-> 0]
    /\ hSessions = EmptyMap
    /\ hEver = neighbors
    /\ trySend = [pc |-> "idle"]
    /\ netOp = [name |-> "new", count |-> 0]
    /\ bufOp = [name |-> "new"]
    /\ bufMarked = EmptyMap
    /\ bufTotal = EmptyMap
    /\ AsmIdle
    /\ FloodIdle

\* the handler's other operations run only while no try_send is in progress
TrySetup ==
    /\ trySend.pc = "idle"
    /\ \/ HAddNeighbor
       \/ HHandleNack

\* the channels fail whenever they like
TryEnvironment ==
    \/ Disconnect
    \/ ControllerDisconnect

\* try_send is called: the destination is read, the loop is about to start
TryCall ==
    /\ trySend.pc = "idle"
    /\ Running
    /\ \E hops \in AckRoutes :
        trySend' =
            IF hops = <<>>
            THEN [pc |-> "returned", result |-> Err("NoDestination"), iterations |-> 0,
                  start |-> Cardinality(neighbors), packet_sent |-> FALSE]
            ELSE [pc |-> "loop", packet |-> PacketNewAck(SourceRoutingHeaderNew(hops, 1), 1, 0),
                  destination |-> hops[Len(hops)], iterations |-> 0,
                  start |-> Cardinality(neighbors), packet_sent |-> FALSE]
    /\ UNCHANGED <<netVars, asmVars, floodVars, bufVars, neighbors, flood_seen, session_counter,
                   flood_counter, dead, ctrlDead, hOp, hSessions, hEver>>

\* one iteration of `while !packet_sent && self.neighbors.len() > 0`
TryIterate ==
    /\ trySend.pc = "loop"
    /\ ~trySend.packet_sent
    /\ neighbors # {}
    /\ LET r == SendPacketToFirstHop(Handler, trySend.packet)
           h1 == RemoveNeighbor(r.h, trySend.packet.routing_header.hops[2])
           route == FindPath(h1.nodes, trySend.destination)
           counted == [trySend EXCEPT !.iterations = @ + 1]
       IN CASE r.err.kind = "Ok" ->
                 /\ trySend' = [counted EXCEPT !.packet_sent = TRUE]
                 /\ UNCHANGED <<nodes, neighbors, dead>>
            [] r.err.kind = "SendError" ->
                 /\ nodes' = h1.nodes
                 /\ neighbors' = h1.neighbors
                 /\ dead' = dead \cap h1.neighbors
                 /\ trySend' =
                      CASE route.kind = "panic" -> [counted EXCEPT !.pc = "panicked"]
                        [] route.kind = "Ok" ->
                              [counted EXCEPT !.packet.routing_header =
                                  WithoutLoops(SourceRoutingHeaderNew(route.path, 1))]
                        [] OTHER ->
                              [pc |-> "returned",
                               result |-> ErrId("PathNotFound", trySend.destination),
                               iterations |-> counted.iterations, start |-> trySend.start,
                               packet_sent |-> FALSE]
            [] OTHER ->
                 /\ trySend' = [pc |-> "returned", result |-> r.err,
                                iterations |-> counted.iterations, start |-> trySend.start,
                                packet_sent |-> FALSE]
                 /\ UNCHANGED <<nodes, neighbors, dead>>
    /\ UNCHANGED <<netOp, asmVars, floodVars, bufVars, flood_seen, session_counter, flood_counter,
                   ctrlDead, hOp, hSessions, hEver>>

\* the loop is left and the neighbor map is looked at once more
TryLeave ==
    /\ trySend.pc = "loop"
    /\ trySend.packet_sent \/ neighbors = {}
    /\ trySend' = [pc |-> "returned",
                   result |-> IF neighbors = {} THEN Err("NoNeighborAssigned") ELSE Ok,
                   iterations |-> trySend.iterations, start |-> trySend.start,
                   packet_sent |-> trySend.packet_sent]
    /\ UNCHANGED <<netVars, asmVars, floodVars, bufVars, neighbors, flood_seen, session_counter,
                   flood_counter, dead, ctrlDead, hOp, hSessions, hEver>>

TryNext ==
    \/ TrySetup
    \/ TryEnvironment
    \/ TryCall
    \/ TryIterate
    \/ TryLeave

SpecTry == TryInit /\ [][TryNext]_vars /\ WF_vars(TryIterate) /\ WF_vars(TryLeave)

\* an iteration has ended without ending the call or sending the packet
IterationFailed ==
    /\ trySend.pc = "loop"
    /\ trySend'.pc = "loop"
    /\ trySend'.iterations = trySend.iterations + 1
    /\ ~trySend'.packet_sent

\* C31: every iteration of try_send's loop that neither sends the packet nor
\* ends the call takes one key out of the neighbor map; the loop runs at most
\* once per neighbor there was at the call, plus one; and every call returns,
\* with Ok or with an error
C31_TrySendTerminates ==
    /\ [][IterationFailed
            => /\ neighbors' \subseteq neighbors
               /\ Cardinality(neighbors') = Cardinality(neighbors) - 1]_vars
    /\ [](trySend.pc # "idle" => trySend.iterations <= trySend.start + 1)
    /\ (trySend.pc = "loop") ~> (trySend.pc = "returned")

\* C32: in every state of the handler, every key of the neighbor map is in
\* the adjacency list of the local node, and find_path finds a path to it
C32_NeighborsAreAdjacent ==
    \A n \in neighbors :
        /\ \E adj \in LocalAdjacents(nodes) : Contains(adj, n)
        /\ nodes # <<>>
        /\ FindPath(nodes, n).kind = "Ok"

(***************************************************************************)
(* A network of handlers.  Every node runs Processor::run over its own     *)
(* RoutingHandler: it may start a flood, and it takes the packets of its   *)
(* packet_recv channel one by one through handle_packet.  A step is one    *)
(* call; the steps of the nodes interleave in any order.  Here dead is the *)
(* set of nodes whose run has returned, which drops their receiver.        *)
(***************************************************************************)
Link(a, b) == {<<a, b>>, <<b, a>>}

\* the channels of the network: the three lines over the nodes and the cycle
Topologies ==
    {Link(1, 2) \cup Link(2, 3), Link(2, 1) \cup Link(1, 3), Link(1, 3) \cup Link(3, 2),
     Link(1, 2) \cup Link(2, 3) \cup Link(3, 1)}

FloodKeys == {<<f, i>> : f \in 1..MaxFlood, i \in NodeIds}

FloodInit ==
    /\ NetIdle
    /\ AsmIdle
    /\ BufIdle
    /\ HandlerIdle
    /\ \E links \in Topologies :
            peers = [n \in NodeIds |->
                        RoutingHandlerNew(n, "Client", {x \in NodeIds : <<n, x>> \in links})]
    /\ inbox = [n \in NodeIds |-> <<>>]
    /\ floodLog = [n \in NodeIds |-> [k \in FloodKeys |-> 0]]

\* the FloodRequest packets among what a call has sent
RequestsOut(out) ==
    SelectSeq(out, LAMBDA o : o.kind = "packet" /\ o.packet.pack_type = "FloodRequest")

\* the floods a call has sent FloodRequest packets of
FloodsOut(out) ==
    {<<o.packet.flood_request.flood_id,
       o.packet.flood_request.initiator_id>> : o \in Range(RequestsOut(out))}

\* the sends of a call, in program order
PacketsOut(out) == SelectSeq(out, LAMBDA o : o.kind = "packet")

\* the network after node n has run the call that ended in r on a channel
\* left with rest: the call's sends wait in the node's out until the node's
\* thread makes them, and an error or a panic ends the node's run
AfterCall(n, r, rest) ==
    LET stops == r.err.kind # "Ok"
    IN /\ peers' = [peers EXCEPT ![n] = [r.h EXCEPT !.out = PacketsOut(@)]]
       /\ inbox' = [inbox EXCEPT ![n] = rest]
       /\ dead' = IF stops THEN dead \cup {n} ELSE dead
       /\ floodLog' = [floodLog EXCEPT ![n] =
                          [k \in FloodKeys |-> IF k \in FloodsOut(r.h.out) THEN @[k] + 1
                                               ELSE @[k]]]
       /\ UNCHANGED <<netVars, asmVars, bufVars, neighbors, flood_seen, session_counter,
                      flood_counter, ctrlDead, hOp, hSessions, hEver, trySend>>

\* whether node n is between two calls
Between(n) == n \notin dead /\ peers[n].out = <<>>

\* Processor::run and later callers: a node starts a flood; the error of
\* start_flood is dropped
FloodStart ==
    \E n \in NodeIds :
        /\ Between(n)
        /\ peers[n].flood_counter < MaxFlood
        /\ AfterCall(n, Done(NodeStartFlood(n, peers[n]).h, Ok), inbox[n])

\* Processor::run takes the next packet of a node through handle_packet
FloodReceive ==
    \E n \in NodeIds :
        /\ Between(n)
        /\ inbox[n] # <<>>
        /\ LET pkt == Head(inbox[n])
           IN IF pkt.pack_type = "FloodRequest"
              THEN \E order \in Orders(peers[n].neighbors) :
                        AfterCall(n, NodeHandleFloodRequest(n, peers[n],
                                         pkt.flood_request, pkt.session_id, order),
                                  Tail(inbox[n]))
              ELSE AfterCall(n, Done(HandleFloodResponse(peers[n], pkt.flood_response), Ok),
                             Tail(inbox[n]))

\* the thread of a node makes the next send of its call: the packet enters
\* the channel of the neighbor; the sends of the other nodes fall in between
FloodTransmit ==
    \E n \in NodeIds :
        /\ peers[n].out # <<>>
        /\ LET o == Head(peers[n].out)
           IN inbox' = [inbox EXCEPT ![o.to] = IF o.to \in dead THEN @ ELSE Append(@, o.packet)]
        /\ peers' = [peers EXCEPT ![n].out = Tail(@)]
        /\ UNCHANGED <<netVars, asmVars, bufVars, neighbors, flood_seen, session_counter,
                       flood_counter, dead, ctrlDead, hOp, hSessions, hEver, trySend, floodLog>>

FloodNext == FloodStart \/ FloodReceive \/ FloodTransmit

SpecFlood ==
    FloodInit /\ [][FloodNext]_vars /\ WF_vars(FloodReceive) /\ WF_vars(FloodTransmit)

\* no packet of any flood is waiting in any channel or to be sent
FloodQuiet == \A n \in NodeIds : inbox[n] = <<>> /\ peers[n].out = <<>>

\* C33: in a network of handlers, whatever the interleaving and the
\* topology, a node sends FloodRequest packets of one flood (flood_id,
\* initiator_id) in at most one of its steps, its start_flood or one
\* forwarding, the initiator included; and the flood quiesces: from some
\* point on no packet is waiting in any channel or to be sent
C33_FloodSentOncePerNode ==
    /\ [](\A n \in NodeIds : \A k \in FloodKeys : floodLog[n][k] <= 1)
    /\ <>[]FloodQuiet

====
